---- MODULE Spec2Model ----
(***************************************************************************)
(* Ingestion-and-deduplication pipeline of the stock-mention tracker:      *)
(* ticker extraction, the persistent store, the dedup-and-store pipeline   *)
(* and the feed walker, modelled from the Python sources.                  *)
(*                                                                         *)
(* Text is a sequence of one-character strings.  A stock id is the         *)
(* position of the row in the stocks table; 0 stands for Python's None.    *)
(***************************************************************************)
EXTENDS Integers, Sequences, FiniteSets, TLC

(***************************************************************************)
(* Bounds of the model.                                                    *)
(***************************************************************************)
\* native ids the upstream feed can yield: 1..NumIds
NumIds == 3
\* items one lazy sequence (submissions or comments) yields at most
MaxFeed == 2
\* ages (in days) of yielded items: 0..MaxAge
MaxAge == 2
\* length of the texts the extraction specification enumerates
MaxLen == 4
\* scrape() runs in one behaviour
MaxRuns == 2

(***************************************************************************)
(* Characters and strings.                                                 *)
(***************************************************************************)
\* str.upper() on one character
UpperOf(c) ==
  CASE c = "a" -> "A"
    [] c = "b" -> "B"
    [] c = "c" -> "C"
    [] c = "d" -> "D"
    [] c = "e" -> "E"
    [] c = "f" -> "F"
    [] c = "g" -> "G"
    [] c = "h" -> "H"
    [] c = "i" -> "I"
    [] c = "j" -> "J"
    [] c = "k" -> "K"
    [] c = "l" -> "L"
    [] c = "m" -> "M"
    [] c = "n" -> "N"
    [] c = "o" -> "O"
    [] c = "p" -> "P"
    [] c = "q" -> "Q"
    [] c = "r" -> "R"
    [] c = "s" -> "S"
    [] c = "t" -> "T"
    [] c = "u" -> "U"
    [] c = "v" -> "V"
    [] c = "w" -> "W"
    [] c = "x" -> "X"
    [] c = "y" -> "Y"
    [] c = "z" -> "Z"
    [] OTHER -> c

\* str.upper()
upper(s) == [i \in 1..Len(s) |-> UpperOf(s[i])]

\* the characters the regex class \w matches
IsWordChar(c) == c \notin {" ", ".", "\n"}

\* the characters str.strip() removes
IsSpace(c) == c \in {" ", "\n"}

RECURSIVE lstrip(_)
lstrip(s) == IF s # <<>> /\ IsSpace(Head(s)) THEN lstrip(Tail(s)) ELSE s

RECURSIVE rstrip(_)
rstrip(s) ==
  IF s # <<>> /\ IsSpace(s[Len(s)]) THEN rstrip(SubSeq(s, 1, Len(s) - 1)) ELSE s

\* str.strip()
strip(s) == rstrip(lstrip(s))

\* the elements of a sequence
Range(s) == {s[i] : i \in 1..Len(s)}

(***************************************************************************)
(* Ticker extractor: the compiled pattern \b(T1|T2|...)\b and findall.     *)
(***************************************************************************)
\* the upper-cased ticker list the constructor builds the pattern from
PatternTickers(tickers) == [i \in 1..Len(tickers) |-> upper(tickers[i])]

\* the alternatives of the group: "|".join of an empty list is the empty
\* string, which leaves one empty alternative
Alternatives(tickers) == IF Len(tickers) = 0 THEN << <<>> >> ELSE tickers

\* \b at offset p (between s[p] and s[p+1])
AtBoundary(s, p) ==
  LET left == p >= 1 /\ IsWordChar(s[p])
      right == p < Len(s) /\ IsWordChar(s[p + 1])
  IN  left # right

\* alternative alt matches at offset p with \b on both sides
MatchAlt(s, p, alt) ==
  /\ p + Len(alt) <= Len(s)
  /\ \A j \in 1..Len(alt) : s[p + j] = alt[j]
  /\ AtBoundary(s, p)
  /\ AtBoundary(s, p + Len(alt))

\* the first alternative (in pattern order) that matches at offset p, or 0
FirstAlt(s, alts, p) ==
  IF \E k \in 1..Len(alts) : MatchAlt(s, p, alts[k])
  THEN CHOOSE k \in 1..Len(alts) :
         /\ MatchAlt(s, p, alts[k])
         /\ \A k2 \in 1..(k - 1) : ~MatchAlt(s, p, alts[k2])
  ELSE 0

\* re.findall: left-to-right scan for non-overlapping matches from offset p
RECURSIVE findall(_, _, _)
findall(s, alts, p) ==
  IF p > Len(s) THEN <<>>
  ELSE LET k == FirstAlt(s, alts, p)
       IN  IF k = 0 THEN findall(s, alts, p + 1)
           ELSE <<alts[k]>> \o
                findall(s, alts, IF Len(alts[k]) = 0 THEN p + 1 ELSE p + Len(alts[k]))

\* RedditDataSource.extract_tickers_from_text; pattern is the upper-cased
\* ticker list of the constructor.  The result is the set behind list(set(..)).
extract_tickers_from_text(pattern, text) ==
  Range(findall(upper(text), Alternatives(pattern), 0))

(***************************************************************************)
(* Persistent store: the stocks table and the mentions table.              *)
(***************************************************************************)
\* schema: stocks.symbol is UNIQUE
SymbolTaken(stk, sym) == \E i \in 1..Len(stk) : stk[i] = sym

\* SELECT id FROM stocks WHERE symbol = ?  (0 when fetchone() is None)
SelectStockId(stk, sym) ==
  IF SymbolTaken(stk, sym) THEN CHOOSE i \in 1..Len(stk) : stk[i] = sym ELSE 0

\* add_stock that stores and looks up the symbol as given
add_stock_raw(stk, symbol) ==
  IF SymbolTaken(stk, symbol)
  THEN [stocks |-> stk, id |-> SelectStockId(stk, symbol)]
  ELSE [stocks |-> Append(stk, symbol), id |-> Len(stk) + 1]

\* Database.add_stock: INSERT the upper-cased symbol; on IntegrityError
\* SELECT the existing id
add_stock(stk, symbol) ==
  IF SymbolTaken(stk, upper(symbol))
  THEN [stocks |-> stk, id |-> SelectStockId(stk, upper(symbol))]
  ELSE [stocks |-> Append(stk, upper(symbol)), id |-> Len(stk) + 1]

\* Database.get_stock_id
get_stock_id(stk, symbol) == SelectStockId(stk, upper(symbol))

\* DataSource.ensure_stocks_exist: add_stock for every ticker, in order
RECURSIVE ensure_stocks_exist(_, _)
ensure_stocks_exist(stk, tickers) ==
  IF tickers = <<>> THEN stk
  ELSE ensure_stocks_exist(add_stock(stk, Head(tickers)).stocks, Tail(tickers))

\* schema: mentions.external_id is UNIQUE
ExternalIdTaken(ms, eid) == \E i \in 1..Len(ms) : ms[i].external_id = eid

\* Database.mention_exists / data_point_exists
mention_exists(ms, source, eid) ==
  \E i \in 1..Len(ms) : ms[i].source = source /\ ms[i].external_id = eid

\* DataSource.get_source_name of the Reddit source
get_source_name == "reddit"

\* is_duplicate with the test negated
is_duplicate_inverted(ms, eid) == ~mention_exists(ms, get_source_name, eid)

\* DataSource.is_duplicate
is_duplicate(ms, eid) == mention_exists(ms, get_source_name, eid)

\* add_mention on a table without the uniqueness check
add_mention_unchecked(ms, row) == [raised |-> FALSE, mentions |-> Append(ms, row)]

\* Database.add_mention / add_data_point: a plain INSERT; a constraint
\* violation raises sqlite3.IntegrityError and leaves the table as it was
add_mention(ms, row) ==
  IF ExternalIdTaken(ms, row.external_id)
  THEN [raised |-> TRUE, mentions |-> ms]
  ELSE [raised |-> FALSE, mentions |-> Append(ms, row)]

\* the row an INSERT of a data point builds; sentiment_score starts NULL (<<>>)
NewRow(stock_id, dp) ==
  [stock_id |-> stock_id, source |-> get_source_name, content |-> dp.content,
   url |-> dp.url, external_id |-> dp.external_id, metadata |-> dp.metadata,
   sentiment_score |-> <<>>]

\* DataSource.store_data_point: True, or False when add_data_point raised
store_data_point(ms, stock_id, dp) ==
  LET r == add_mention(ms, NewRow(stock_id, dp))
  IN  [ok |-> ~r.raised, mentions |-> r.mentions]

(***************************************************************************)
(* Dedup and store pipeline.                                               *)
(***************************************************************************)
\* the orders in which list(set(matches)) can enumerate the found tickers
Orders(S) == {o \in [1..Cardinality(S) -> S] : Range(o) = S}

\* the for loop of process_content_for_tickers over the found tickers;
\* log records every store_data_point call and what it returned
RECURSIVE store_each(_, _, _, _, _, _)
store_each(ms, stk, order, dp, count, log) ==
  IF order = <<>> THEN [mentions |-> ms, count |-> count, log |-> log]
  ELSE LET stock_id == get_stock_id(stk, Head(order))
       IN  IF stock_id = 0
           THEN store_each(ms, stk, Tail(order), dp, count, log)
           ELSE LET r == store_data_point(ms, stock_id, dp)
                IN  store_each(r.mentions, stk, Tail(order), dp,
                               IF r.ok THEN count + 1 ELSE count,
                               Append(log, [stock_id |-> stock_id,
                                            existed |-> ExternalIdTaken(ms, dp.external_id),
                                            ok |-> r.ok]))

\* the calls one process_content_for_tickers call makes, in program order:
\* the extraction, the dedup check, one store_data_point per logged insert
CallTrace(checked, log) ==
  <<"extract_tickers_from_text">>
    \o (IF checked THEN <<"is_duplicate">> ELSE <<>>)
    \o [i \in 1..Len(log) |-> "store_data_point"]

\* the for loop with the dedup check moved inside it: one check per ticker
RECURSIVE store_each_checked(_, _, _, _, _, _, _)
store_each_checked(ms, stk, order, dp, count, log, trace) ==
  IF order = <<>> THEN [mentions |-> ms, count |-> count, log |-> log, trace |-> trace]
  ELSE LET stock_id == get_stock_id(stk, Head(order))
       IN  IF stock_id = 0
           THEN store_each_checked(ms, stk, Tail(order), dp, count, log, trace)
           ELSE IF is_duplicate(ms, dp.external_id)
           THEN store_each_checked(ms, stk, Tail(order), dp, count, log,
                                   Append(trace, "is_duplicate"))
           ELSE LET r == store_data_point(ms, stock_id, dp)
                IN  store_each_checked(r.mentions, stk, Tail(order), dp,
                                       IF r.ok THEN count + 1 ELSE count,
                                       Append(log, [stock_id |-> stock_id,
                                                    existed |-> FALSE, ok |-> r.ok]),
                                       trace \o <<"is_duplicate", "store_data_point">>)

\* process_content_for_tickers that checks the identifier once per ticker
process_content_check_per_ticker(ms, stk, pattern, dp, order) ==
  LET found_tickers == extract_tickers_from_text(pattern, dp.content)
  IN  IF found_tickers = {}
      THEN [mentions |-> ms, count |-> 0, log |-> <<>>, path |-> "no_ticker",
            trace |-> CallTrace(FALSE, <<>>)]
      ELSE LET r == store_each_checked(ms, stk, order, dp, 0, <<>>,
                                       <<"extract_tickers_from_text">>)
           IN  [mentions |-> r.mentions, count |-> r.count, log |-> r.log,
                path |-> IF r.log = <<>> THEN "duplicate" ELSE "stored",
                trace |-> r.trace]

\* RedditDataSource.process_content_for_tickers; order is the enumeration
\* order of the found tickers
process_content_for_tickers(ms, stk, pattern, dp, order) ==
  LET found_tickers == extract_tickers_from_text(pattern, dp.content)
  IN  IF found_tickers = {}
      THEN [mentions |-> ms, count |-> 0, log |-> <<>>, path |-> "no_ticker",
            trace |-> CallTrace(FALSE, <<>>)]
      ELSE IF is_duplicate(ms, dp.external_id)
      THEN [mentions |-> ms, count |-> 0, log |-> <<>>, path |-> "duplicate",
            trace |-> CallTrace(TRUE, <<>>)]
      ELSE LET r == store_each(ms, stk, order, dp, 0, <<>>)
           IN  [mentions |-> r.mentions, count |-> r.count, log |-> r.log,
                path |-> "stored", trace |-> CallTrace(TRUE, r.log)]

(***************************************************************************)
(* Configuration and the upstream feed.                                    *)
(***************************************************************************)
\* dict.get(key, default) on a configuration
get_config_value(cfg, key, default) == IF key \in DOMAIN cfg THEN cfg[key] ELSE default

\* defaults of get_config_value("max_days", 7) and get_config_value("min_days", 0)
DefaultMaxDays == 7
DefaultMinDays == 0

\* the configurations a run can be started with
CfgBoth ==
  [subreddits |-> <<"c1", "c2">>, tickers |-> << <<"a">>, <<"T">> >>,
   max_days |-> 1, min_days |-> 1]
CfgOne ==
  [subreddits |-> <<"c1">>, tickers |-> << <<"T">> >>, max_days |-> 1, min_days |-> 1]
CfgNoTickers == [subreddits |-> <<"c1">>, tickers |-> <<>>, max_days |-> 1]
CfgMissing == [subreddits |-> <<"c1">>, max_days |-> 1]
Configs == {CfgBoth, CfgOne, CfgNoTickers, CfgMissing}

\* RedditDataSource._validate_config: the exception it raises, or "none"
validate_config(cfg, credentials) ==
  IF \E f \in {"subreddits", "tickers", "max_days"} : f \notin DOMAIN cfg
  THEN "ValueError"
  ELSE IF ~credentials THEN "RuntimeError" ELSE "none"

\* is_within_time_range that forgets the lower end of the window
is_within_time_range_no_min(cfg, age_days) ==
  age_days <= get_config_value(cfg, "max_days", DefaultMaxDays)

\* RedditDataSource.is_within_time_range
is_within_time_range(cfg, age_days) ==
  LET min_days == get_config_value(cfg, "min_days", DefaultMinDays)
      max_days == get_config_value(cfg, "max_days", DefaultMaxDays)
  IN  min_days <= age_days /\ age_days <= max_days

\* a walk that filters old items instead of stopping at the first one
exceeds_max_days_never(cfg, age) == FALSE

\* the test `age > max_days` that breaks out of a feed sequence
exceeds_max_days(cfg, age) == age > get_config_value(cfg, "max_days", DefaultMaxDays)

\* the text an upstream item carries (title of a submission, body of a comment)
ItemText(id) ==
  CASE id = 1 -> <<"a", " ", "T">>
    [] id = 2 -> <<"A", ".">>
    [] id = 3 -> <<" ">>
    [] OTHER -> <<"A", "x">>

\* the channel an upstream item lives in: a feed yields its own channel's items
ItemChannel(id) == IF id % 2 = 1 THEN "c1" ELSE "c2"

\* RedditDataSource.get_submission_text: (title + "\n" + selftext).strip(),
\* the feed's submissions carry no selftext
get_submission_text(id) == strip(ItemText(id) \o <<"\n">> \o <<>>)

\* comment.body or ""
comment_body(id) == ItemText(id)

\* submission.id / comment.id: the native id of an item, a string
NativeId(id) == ToString(id)

\* submission.url: the permalink of a self post (odd ids) or the linked page
submission_url(id) ==
  IF id % 2 = 1 THEN <<"https:", "", "www.reddit.com", "r", "comments", NativeId(id), "title", "">>
  ELSE <<"https:", "", "example.com", "news">>

\* f"https://reddit.com{comment.permalink}"
comment_url(id) == <<"https:", "", "reddit.com", "r", "comments", "link", "title", NativeId(id), "">>

\* create_external_id that leaves the content type out of the id
create_external_id_no_kind(content_type, content_id) ==
  <<"reddit", "_", "submission", "_", content_id>>

\* RedditDataSource.create_external_id: f"reddit_{content_type}_{content_id}"
create_external_id(content_type, content_id) ==
  <<"reddit", "_", content_type, "_", content_id>>

\* RedditDataSource.create_metadata (the dict that json.dumps serialises)
create_metadata(content_type, subreddit, author, age_days, tickers) ==
  [type |-> content_type, subreddit |-> subreddit, author |-> author,
   age_days |-> age_days, tickers |-> tickers]

\* the data point process_submissions builds for a submission
submission_data_point(pattern, subreddit, id, age) ==
  LET content == get_submission_text(id)
  IN  [content |-> content, url |-> submission_url(id),
       external_id |-> create_external_id("submission", NativeId(id)),
       metadata |-> create_metadata("submission", subreddit, "author", age,
                                    extract_tickers_from_text(pattern, content))]

\* the data point process_comments builds for a comment
comment_data_point(pattern, subreddit, id, age) ==
  LET content == comment_body(id)
  IN  [content |-> content, url |-> comment_url(id),
       external_id |-> create_external_id("comment", NativeId(id)),
       metadata |-> create_metadata("comment", subreddit, "author", age,
                                    extract_tickers_from_text(pattern, content))]

\* one iteration of the for loop of process_submissions / process_comments
\* over the data point dp of an item of the given age
walk_item(ms, stk, cfg, pattern, dp, age, order) ==
  IF exceeds_max_days(cfg, age)
  THEN [outcome |-> "break", mentions |-> ms, count |-> 0, path |-> "none", log |-> <<>>,
        trace |-> <<>>]
  ELSE IF ~is_within_time_range(cfg, age)
  THEN [outcome |-> "skip_range", mentions |-> ms, count |-> 0, path |-> "none", log |-> <<>>,
        trace |-> <<>>]
  ELSE IF dp.content = <<>>
  THEN [outcome |-> "skip_empty", mentions |-> ms, count |-> 0, path |-> "none", log |-> <<>>,
        trace |-> <<>>]
  ELSE LET r == process_content_for_tickers(ms, stk, pattern, dp, order)
       IN  [outcome |-> "processed", mentions |-> r.mentions, count |-> r.count,
            path |-> r.path, log |-> r.log, trace |-> r.trace]

\* a tally that counts every walked item without a new row as skipped
add_result_skipping_all(t, w) ==
  IF w.count > 0 THEN [t EXCEPT !.stored = @ + w.count]
  ELSE [t EXCEPT !.skipped = @ + 1]

\* `if result > 0: stored += result else: skipped += 1`
add_result(t, w) ==
  IF w.outcome # "processed" THEN t
  ELSE IF w.count > 0 THEN [t EXCEPT !.stored = @ + w.count]
  ELSE [t EXCEPT !.skipped = @ + 1]

(***************************************************************************)
(* State.                                                                  *)
(***************************************************************************)
VARIABLES
  stocks,      \* the stocks table: sequence of symbols, id = position
  mentions,    \* the mentions table: sequence of rows, id = position
  data_points, \* the data_points table of a database file that still has one
               \* (NoTable otherwise)
  dbs,         \* the Database objects held on a file under migration:
               \* "legacy" (src/database.py), "core" (advisor/core)
  sqlite_sequence, \* whether the schema declares the id columns
               \* AUTOINCREMENT, and then the largest rowid each table
               \* has handed out or been offered
  connection,  \* Database.connection of the store handle: "open" or "None"
  held,        \* connections Database.__init__ and the Scoped operations
               \* opened that are not closed yet
  ds,          \* the RedditDataSource object: [constructed, config, pattern]
  pc,          \* position of scrape(): idle, submissions, comments, done, raised
  chan,        \* index of the channel being walked (0 outside a run)
  pos,         \* items the current sequence has yielded so far
  tally,       \* stored/skipped locals of the running process_* call
  subTally,    \* what process_submissions returned for the current channel
  total,       \* total_stored/total_skipped of scrape()
  slept,       \* time.sleep(2) calls of the running or last scrape()
  cur,         \* the item visited last (index: its place in its sequence)
               \* and what the loop body did with it
  ret,         \* the last call of the public API and its outcome
  runs,        \* scrape() runs started so far
  xt,          \* extraction harness: [text, tickers, out, done]
  an           \* sentiment layer: the last call of the analyzer and its outcome

vars == <<stocks, mentions, data_points, dbs, sqlite_sequence, connection, held,
          ds, pc, chan, pos, tally, subTally, total, slept, cur, ret, runs, xt, an>>

storeVars == <<stocks, mentions, data_points, dbs, sqlite_sequence, connection, held>>
runVars == <<ds, pc, chan, pos, tally, subTally, total, slept, cur, runs>>

Zero == [stored |-> 0, skipped |-> 0]
NoItem ==
  [kind |-> "none", id |-> 0, age |-> 0, index |-> 0, outcome |-> "none",
   count |-> 0, path |-> "none", log |-> <<>>, trace |-> <<>>]
\* a table the database file does not have
NoTable == "no such table"
\* a schema whose id columns are plain INTEGER PRIMARY KEY: no sqlite_sequence
NoSequence == [autoincrement |-> FALSE, mentions |-> 0, data_points |-> 0]
NoCall == [op |-> "none", exc |-> "none", val |-> <<>>]
NoSource == [constructed |-> FALSE, config |-> CfgMissing, pattern |-> <<>>]
NoExtract == [text |-> <<>>, tickers |-> <<>>, out |-> {}, done |-> FALSE]
NoAnalysis == [op |-> "none"]

Ids == 1..NumIds
Ages == 0..MaxAge
Symbols == {<<"a">>, <<"A">>, <<"t">>}

\* sqlite3.connect(self.db_path): one more open connection
connect(h) == h + 1

\* Connection.__exit__: commit or rollback; the connection stays open
connection_exit(h) == h

\* Database.__init__: the tables exist and are empty, the handle is open;
\* the connection _init_database opened in its `with` block is still open
Init ==
  /\ stocks = <<>>
  /\ mentions = <<>>
  /\ data_points = NoTable
  /\ dbs = {}
  /\ sqlite_sequence = NoSequence
  /\ connection = "open"
  /\ held = connection_exit(connect(0))
  /\ ds = NoSource
  /\ pc = "idle"
  /\ chan = 0
  /\ pos = 0
  /\ tally = Zero
  /\ subTally = Zero
  /\ total = Zero
  /\ slept = 0
  /\ cur = NoItem
  /\ ret = NoCall
  /\ runs = 0
  /\ xt = NoExtract
  /\ an = NoAnalysis

Walking == pc \in {"submissions", "comments"}

(***************************************************************************)
(* Operations.                                                             *)
(***************************************************************************)
\* RedditDataSource.__init__ with a valid configuration and credentials
Construct(cfg) ==
  /\ ~Walking
  /\ validate_config(cfg, TRUE) = "none"
  /\ LET tickers == PatternTickers(get_config_value(cfg, "tickers", <<>>))
     IN  /\ ds' = [constructed |-> TRUE, config |-> cfg, pattern |-> tickers]
         /\ stocks' = ensure_stocks_exist(stocks, tickers)
  /\ data_points' = data_points
  /\ dbs' = dbs
  /\ sqlite_sequence' = sqlite_sequence
  /\ connection' = "open"
  /\ held' = held
  /\ pc' = "idle"
  /\ chan' = 0
  /\ pos' = 0
  /\ tally' = Zero
  /\ subTally' = Zero
  /\ total' = Zero
  /\ slept' = 0
  /\ cur' = NoItem
  /\ ret' = [op |-> "construct", exc |-> "none", val |-> <<>>]
  /\ UNCHANGED <<mentions, runs, xt, an>>

\* a constructor that registers the tickers before it validates
ConstructFails_stocks_first(cfg, credentials) ==
  /\ ~Walking
  /\ validate_config(cfg, credentials) # "none"
  /\ ds' = NoSource
  /\ stocks' = ensure_stocks_exist(stocks,
                  PatternTickers(get_config_value(cfg, "tickers", <<>>)))
  /\ data_points' = data_points
  /\ dbs' = dbs
  /\ sqlite_sequence' = sqlite_sequence
  /\ connection' = "open"
  /\ held' = held
  /\ pc' = "idle"
  /\ chan' = 0
  /\ pos' = 0
  /\ tally' = Zero
  /\ subTally' = Zero
  /\ total' = Zero
  /\ slept' = 0
  /\ cur' = NoItem
  /\ ret' = [op |-> "construct", exc |-> validate_config(cfg, credentials), val |-> <<>>]
  /\ UNCHANGED <<mentions, runs, xt, an>>

\* RedditDataSource.__init__ failing in _validate_config: the base class has
\* opened the store, nothing else has happened
ConstructFails(cfg, credentials) ==
  /\ ~Walking
  /\ validate_config(cfg, credentials) # "none"
  /\ ds' = NoSource
  /\ data_points' = data_points
  /\ dbs' = dbs
  /\ sqlite_sequence' = sqlite_sequence
  /\ connection' = "open"
  /\ held' = held
  /\ pc' = "idle"
  /\ chan' = 0
  /\ pos' = 0
  /\ tally' = Zero
  /\ subTally' = Zero
  /\ total' = Zero
  /\ slept' = 0
  /\ cur' = NoItem
  /\ ret' = [op |-> "construct", exc |-> validate_config(cfg, credentials), val |-> <<>>]
  /\ UNCHANGED <<stocks, mentions, runs, xt, an>>

\* Database.add_stock called on the store
AddStock(symbol) ==
  /\ ~Walking
  /\ LET r == add_stock(stocks, symbol)
     IN  /\ stocks' = r.stocks
         /\ ret' = [op |-> "add_stock", exc |-> "none", val |-> r.id, arg |-> symbol]
  /\ UNCHANGED <<mentions, data_points, dbs, sqlite_sequence, connection, held, runVars, xt, an>>

\* Database.get_stock_id called on the store
GetStockId(symbol) ==
  /\ ~Walking
  /\ ret' = [op |-> "get_stock_id", exc |-> "none",
             val |-> get_stock_id(stocks, symbol), arg |-> symbol]
  /\ UNCHANGED <<storeVars, runVars, xt, an>>

\* Database.close: releases the handle; a second close is a no-op
Close ==
  /\ ~Walking
  /\ data_points' = data_points
  /\ dbs' = dbs
  /\ sqlite_sequence' = sqlite_sequence
  /\ connection' = "None"
  /\ held' = held
  /\ ret' = [op |-> "close", exc |-> "none", val |-> <<>>]
  /\ UNCHANGED <<stocks, mentions, runVars, xt, an>>

\* Database.add_mention called on the store with a row for native id `id`
AddMention(stock_id, id) ==
  /\ ~Walking
  /\ LET dp == [content |-> ItemText(id), url |-> submission_url(id),
                external_id |-> create_external_id("submission", NativeId(id)),
                metadata |-> create_metadata("submission", ItemChannel(id), "author", 0, {})]
         r == add_mention(mentions, NewRow(stock_id, dp))
     IN  /\ mentions' = r.mentions
         /\ ret' = [op |-> "add_mention",
                    exc |-> IF r.raised THEN "IntegrityError" ELSE "none",
                    val |-> Len(r.mentions), arg |-> dp.external_id]
  /\ UNCHANGED <<stocks, data_points, dbs, sqlite_sequence, connection, held, runVars, xt, an>>

\* Database.mention_exists called on the store
MentionExists(id) ==
  /\ ~Walking
  /\ ret' = [op |-> "mention_exists", exc |-> "none",
             val |-> mention_exists(mentions, get_source_name,
                                    create_external_id("submission", NativeId(id))),
             arg |-> create_external_id("submission", NativeId(id))]
  /\ UNCHANGED <<storeVars, runVars, xt, an>>

\* scrape() up to the first channel; with no channel it returns at once
ScrapeStart ==
  /\ ~Walking
  /\ ds.constructed
  /\ runs < MaxRuns
  /\ runs' = runs + 1
  /\ LET subreddits == get_config_value(ds.config, "subreddits", <<>>)
     IN  IF subreddits = <<>>
         THEN /\ pc' = "done"
              /\ chan' = 0
              /\ ret' = [op |-> "scrape", exc |-> "none", val |-> Zero]
         ELSE /\ pc' = "submissions"
              /\ chan' = 1
              /\ ret' = [op |-> "scrape", exc |-> "running", val |-> <<>>]
  /\ pos' = 0
  /\ tally' = Zero
  /\ subTally' = Zero
  /\ total' = Zero
  /\ slept' = 0
  /\ cur' = NoItem
  /\ UNCHANGED <<storeVars, ds, xt, an>>

Subreddit == get_config_value(ds.config, "subreddits", <<>>)[chan]

\* process_submissions returns (stored, skipped); process_comments starts
SubmissionsReturn(t) ==
  /\ pc' = "comments"
  /\ subTally' = t
  /\ tally' = Zero
  /\ pos' = 0
  /\ UNCHANGED <<chan, total, slept, ret>>

\* CommentsReturn of a scrape() that sleeps between channels only, not after
\* the last one
CommentsReturn_no_final_sleep(t) ==
  LET tot == [stored |-> total.stored + subTally.stored + t.stored,
              skipped |-> total.skipped + subTally.skipped + t.skipped]
  IN  /\ total' = tot
      /\ tally' = Zero
      /\ subTally' = Zero
      /\ pos' = 0
      /\ IF chan < Len(get_config_value(ds.config, "subreddits", <<>>))
         THEN /\ pc' = "submissions"
              /\ chan' = chan + 1
              /\ slept' = slept + 1
              /\ UNCHANGED ret
         ELSE /\ pc' = "done"
              /\ chan' = chan
              /\ slept' = slept
              /\ ret' = [op |-> "scrape", exc |-> "none", val |-> tot]

\* process_comments returns; scrape adds the channel's counts, sleeps
\* (time.sleep(2), line 207) and goes to the next channel or returns the
\* totals
CommentsReturn(t) ==
  LET tot == [stored |-> total.stored + subTally.stored + t.stored,
              skipped |-> total.skipped + subTally.skipped + t.skipped]
  IN  /\ total' = tot
      /\ slept' = slept + 1
      /\ tally' = Zero
      /\ subTally' = Zero
      /\ pos' = 0
      /\ IF chan < Len(get_config_value(ds.config, "subreddits", <<>>))
         THEN /\ pc' = "submissions"
              /\ chan' = chan + 1
              /\ UNCHANGED ret
         ELSE /\ pc' = "done"
              /\ chan' = chan
              /\ ret' = [op |-> "scrape", exc |-> "none", val |-> tot]

\* subreddit.new() yields a submission: one iteration of process_submissions
WalkSubmission(id, age) ==
  /\ pc = "submissions"
  /\ pos < MaxFeed
  /\ ItemChannel(id) = Subreddit
  /\ LET dp == submission_data_point(ds.pattern, Subreddit, id, age)
     IN  \E order \in Orders(extract_tickers_from_text(ds.pattern, dp.content)) :
           LET w == walk_item(mentions, stocks, ds.config, ds.pattern, dp, age, order)
           IN  /\ mentions' = w.mentions
               /\ cur' = [kind |-> "submission", id |-> id, age |-> age, index |-> pos + 1,
                          outcome |-> w.outcome, count |-> w.count,
                          path |-> w.path, log |-> w.log,
                          trace |-> w.trace]
               /\ IF w.outcome = "break"
                  THEN SubmissionsReturn(tally)
                  ELSE /\ tally' = add_result(tally, w)
                       /\ pos' = pos + 1
                       /\ UNCHANGED <<pc, chan, subTally, total, slept, ret>>
  /\ UNCHANGED <<stocks, data_points, dbs, sqlite_sequence, connection, held, ds, runs, xt, an>>

\* subreddit.new() is exhausted
EndSubmissions ==
  /\ pc = "submissions"
  /\ SubmissionsReturn(tally)
  /\ UNCHANGED <<storeVars, ds, cur, runs, xt, an>>

\* subreddit.comments() yields a comment: one iteration of process_comments
WalkComment(id, age) ==
  /\ pc = "comments"
  /\ pos < MaxFeed
  /\ ItemChannel(id) = Subreddit
  /\ LET dp == comment_data_point(ds.pattern, Subreddit, id, age)
     IN  \E order \in Orders(extract_tickers_from_text(ds.pattern, dp.content)) :
           LET w == walk_item(mentions, stocks, ds.config, ds.pattern, dp, age, order)
           IN  /\ mentions' = w.mentions
               /\ cur' = [kind |-> "comment", id |-> id, age |-> age, index |-> pos + 1,
                          outcome |-> w.outcome, count |-> w.count,
                          path |-> w.path, log |-> w.log,
                          trace |-> w.trace]
               /\ IF w.outcome = "break"
                  THEN CommentsReturn(tally)
                  ELSE /\ tally' = add_result(tally, w)
                       /\ pos' = pos + 1
                       /\ UNCHANGED <<pc, chan, subTally, total, slept, ret>>
  /\ UNCHANGED <<stocks, data_points, dbs, sqlite_sequence, connection, held, ds, runs, xt, an>>

\* subreddit.comments() is exhausted
EndComments ==
  /\ pc = "comments"
  /\ CommentsReturn(tally)
  /\ UNCHANGED <<storeVars, ds, cur, runs, xt, an>>

\* the upstream feed raises while a sequence is iterated: nothing in
\* process_submissions, process_comments or scrape catches it
FeedError ==
  /\ Walking
  /\ pc' = "raised"
  /\ ret' = [op |-> "scrape", exc |-> "UpstreamError", val |-> <<>>]
  /\ UNCHANGED <<storeVars, ds, chan, pos, tally, subTally, total, slept, cur, runs, xt, an>>

Next ==
  \/ \E cfg \in Configs : Construct(cfg)
  \/ \E cfg \in Configs, credentials \in BOOLEAN : ConstructFails(cfg, credentials)
  \/ ScrapeStart
  \/ \E id \in Ids, age \in Ages : WalkSubmission(id, age)
  \/ EndSubmissions
  \/ \E id \in Ids, age \in Ages : WalkComment(id, age)
  \/ EndComments
  \/ FeedError

Spec == Init /\ [][Next]_vars

\* the store used directly through the Database API
NextStore ==
  \/ \E symbol \in Symbols : AddStock(symbol)
  \/ \E symbol \in Symbols : GetStockId(symbol)
  \/ \E stock_id \in 1..2, id \in Ids : AddMention(stock_id, id)
  \/ \E id \in Ids : MentionExists(id)
  \/ Close

SpecStore == Init /\ [][NextStore]_vars

(***************************************************************************)
(* Ticker extraction on its own: every text up to MaxLen characters        *)
(* against every configured ticker list.                                   *)
(***************************************************************************)
Alphabet == {"G", "O", "g", "o", " ", "."}

RECURSIVE TextsOfLen(_)
TextsOfLen(n) ==
  IF n = 0 THEN {<<>>}
  ELSE {Append(t, c) : t \in TextsOfLen(n - 1), c \in Alphabet}

Texts == UNION {TextsOfLen(n) : n \in 0..MaxLen}

TickerLists ==
  { <<>>,
    << <<"G", "O">> >>,
    << <<"G", "O", "O", "G">> >>,
    << <<"G", "O">>, <<"G", "O", "O", "G">> >>,
    << <<"G", "O", "O">>, <<"G", "O">> >>,
    << <<"g", "o">>, <<"G">> >> }

InitExtract ==
  /\ stocks = <<>>
  /\ mentions = <<>>
  /\ data_points = NoTable
  /\ dbs = {}
  /\ sqlite_sequence = NoSequence
  /\ connection = "open"
  /\ held = 0
  /\ ds = NoSource
  /\ pc = "idle"
  /\ chan = 0
  /\ pos = 0
  /\ tally = Zero
  /\ subTally = Zero
  /\ total = Zero
  /\ slept = 0
  /\ cur = NoItem
  /\ ret = NoCall
  /\ runs = 0
  /\ xt \in [text : Texts, tickers : TickerLists, out : {{}}, done : {FALSE}]
  /\ an = NoAnalysis

\* the constructor compiles the pattern, extract_tickers_from_text applies it
Extract ==
  /\ ~xt.done
  /\ xt' = [xt EXCEPT !.out = extract_tickers_from_text(PatternTickers(xt.tickers), xt.text),
                      !.done = TRUE]
  /\ UNCHANGED <<storeVars, runVars, ret, an>>

NextExtract == Extract

SpecExtract == InitExtract /\ [][NextExtract]_vars

(***************************************************************************)
(* Sentiment and recommendation layer.  A float is modelled by the exact   *)
(* rational it stands for: <<n, d>> with d > 0, in lowest terms.           *)
(***************************************************************************)
\* sentiment values are the fractions in [-1, 1] with a denominator up to
\* Grid; mention counts are 0..MaxCount
Grid == 20
MaxCount == 10

Abs(n) == IF n < 0 THEN -n ELSE n

RECURSIVE Gcd(_, _)
Gcd(a, b) == IF b = 0 THEN a ELSE Gcd(b, a % b)

\* the rational n/d in lowest terms
Rat(n, d) ==
  LET g == Gcd(Abs(n), d)
  IN  IF n = 0 THEN <<0, 1>> ELSE <<n \div g, d \div g>>

RatAdd(x, y) == Rat(x[1] * y[2] + y[1] * x[2], x[2] * y[2])
RatDivInt(x, k) == Rat(x[1], x[2] * k)
RatLeq(x, y) == x[1] * y[2] <= y[1] * x[2]
RatGeq(x, y) == RatLeq(y, x)

\* a configuration value: a dict of items or a plain value
Dict(items) == [isdict |-> TRUE, items |-> items]
Plain(value) == [isdict |-> FALSE, value |-> value]

\* Config.__init__: the default configuration, as far as the layer reads it
DefaultConfig ==
  [analysis |-> Dict([sentiment_threshold_buy |-> Rat(7, 10),
                      sentiment_threshold_sell |-> Rat(3, 10)])]

\* Config._merge_config on the "analysis" key of a configuration file: a
\* dict updates the existing dict key by key, anything else replaces it
merge_config(cfg, value) ==
  IF value.isdict /\ "analysis" \in DOMAIN cfg
  THEN [cfg EXCEPT !.analysis =
          Dict([k \in DOMAIN cfg.analysis.items \cup DOMAIN value.items |->
                  IF k \in DOMAIN value.items THEN value.items[k]
                  ELSE cfg.analysis.items[k]])]
  ELSE [cfg EXCEPT !.analysis = value]

\* the "analysis" sections a configuration file can carry
FileHigher == Dict([sentiment_threshold_buy |-> Rat(8, 10),
                    sentiment_threshold_sell |-> Rat(2, 10)])
FileSwapped == Dict([sentiment_threshold_buy |-> Rat(3, 10),
                     sentiment_threshold_sell |-> Rat(7, 10)])
FileBuyOnly == Dict([sentiment_threshold_buy |-> Rat(8, 10)])
FileNull == Plain("null")

\* the configurations the analyzer can run under
AnalysisConfigs ==
  {DefaultConfig} \cup
  {merge_config(DefaultConfig, f) : f \in {FileHigher, FileSwapped, FileBuyOnly, FileNull}}

\* Config.get("analysis.<key>", default): walks the dotted key through dicts
config_get(cfg, key, default) ==
  IF "analysis" \in DOMAIN cfg /\ cfg.analysis.isdict /\ key \in DOMAIN cfg.analysis.items
  THEN cfg.analysis.items[key]
  ELSE default

\* defaults of get_recommendation
DefaultBuyThreshold == Rat(7, 10)
DefaultSellThreshold == Rat(3, 10)
min_mentions == 5

\* get_recommendation without the minimum-mentions gate
get_recommendation_no_gate(cfg, sentiment_score, mention_count) ==
  LET buy_threshold == config_get(cfg, "sentiment_threshold_buy", DefaultBuyThreshold)
      sell_threshold == config_get(cfg, "sentiment_threshold_sell", DefaultSellThreshold)
  IN  IF RatGeq(sentiment_score, buy_threshold) THEN "BUY"
      ELSE IF RatLeq(sentiment_score, sell_threshold) THEN "SELL"
      ELSE "HOLD"

\* get_recommendation with strict threshold comparisons
get_recommendation_strict(cfg, sentiment_score, mention_count) ==
  LET buy_threshold == config_get(cfg, "sentiment_threshold_buy", DefaultBuyThreshold)
      sell_threshold == config_get(cfg, "sentiment_threshold_sell", DefaultSellThreshold)
  IN  IF mention_count < min_mentions THEN "HOLD"
      ELSE IF ~RatLeq(sentiment_score, buy_threshold) THEN "BUY"
      ELSE IF ~RatGeq(sentiment_score, sell_threshold) THEN "SELL"
      ELSE "HOLD"

\* get_recommendation that tests the sell threshold first
get_recommendation_sell_first(cfg, sentiment_score, mention_count) ==
  LET buy_threshold == config_get(cfg, "sentiment_threshold_buy", DefaultBuyThreshold)
      sell_threshold == config_get(cfg, "sentiment_threshold_sell", DefaultSellThreshold)
  IN  IF mention_count < min_mentions THEN "HOLD"
      ELSE IF RatLeq(sentiment_score, sell_threshold) THEN "SELL"
      ELSE IF RatGeq(sentiment_score, buy_threshold) THEN "BUY"
      ELSE "HOLD"

\* SentimentAnalyzer.get_recommendation
get_recommendation(cfg, sentiment_score, mention_count) ==
  LET buy_threshold == config_get(cfg, "sentiment_threshold_buy", DefaultBuyThreshold)
      sell_threshold == config_get(cfg, "sentiment_threshold_sell", DefaultSellThreshold)
  IN  IF mention_count < min_mentions THEN "HOLD"
      ELSE IF RatGeq(sentiment_score, buy_threshold) THEN "BUY"
      ELSE IF RatLeq(sentiment_score, sell_threshold) THEN "SELL"
      ELSE "HOLD"

\* the sentiment values and mention counts the recommendation is asked about
Sentiments == UNION {{Rat(n, d) : n \in (-d)..d} : d \in 1..Grid}
Counts == 0..MaxCount

\* a recommendation is about to be asked for
InitRecommend ==
  /\ stocks = <<>>
  /\ mentions = <<>>
  /\ data_points = NoTable
  /\ dbs = {}
  /\ sqlite_sequence = NoSequence
  /\ connection = "open"
  /\ held = 0
  /\ ds = NoSource
  /\ pc = "idle"
  /\ chan = 0
  /\ pos = 0
  /\ tally = Zero
  /\ subTally = Zero
  /\ total = Zero
  /\ slept = 0
  /\ cur = NoItem
  /\ ret = NoCall
  /\ runs = 0
  /\ xt = NoExtract
  /\ an \in [op : {"get_recommendation"}, config : AnalysisConfigs,
              sentiment_score : Sentiments, mention_count : Counts,
              out : {"none"}, done : {FALSE}]

\* SentimentAnalyzer.get_recommendation is called
Recommend ==
  /\ an.op = "get_recommendation"
  /\ ~an.done
  /\ an' = [an EXCEPT !.out = get_recommendation(an.config, an.sentiment_score,
                                                  an.mention_count),
                      !.done = TRUE]
  /\ UNCHANGED <<storeVars, runVars, ret, xt>>

NextRecommend == Recommend

SpecRecommend == InitRecommend /\ [][NextRecommend]_vars

(***************************************************************************)
(* The keyword scorer.                                                     *)
(***************************************************************************)
\* str.lower() on one character
LowerOf(c) ==
    CASE c = "A" -> "a"
      [] c = "B" -> "b"
      [] c = "C" -> "c"
      [] c = "D" -> "d"
      [] c = "E" -> "e"
      [] c = "F" -> "f"
      [] c = "G" -> "g"
      [] c = "H" -> "h"
      [] c = "I" -> "i"
      [] c = "J" -> "j"
      [] c = "K" -> "k"
      [] c = "L" -> "l"
      [] c = "M" -> "m"
      [] c = "N" -> "n"
      [] c = "O" -> "o"
      [] c = "P" -> "p"
      [] c = "Q" -> "q"
      [] c = "R" -> "r"
      [] c = "S" -> "s"
      [] c = "T" -> "t"
      [] c = "U" -> "u"
      [] c = "V" -> "v"
      [] c = "W" -> "w"
      [] c = "X" -> "x"
      [] c = "Y" -> "y"
      [] c = "Z" -> "z"
      [] OTHER -> c

\* str.lower()
lower(s) == [i \in 1..Len(s) |-> LowerOf(s[i])]

\* `w in s` on strings: w occurs in s as a substring
Contains(s, w) ==
  \E i \in 1..(Len(s) - Len(w) + 1) : SubSeq(s, i, i + Len(w) - 1) = w

positive_words ==
  <<<<"b", "u", "y">>,
    <<"b", "u", "l", "l", "i", "s", "h">>,
    <<"m", "o", "o", "n">>,
    <<"r", "o", "c", "k", "e", "t">>,
    <<"g", "a", "i", "n", "s">>,
    <<"u", "p">>,
    <<"r", "i", "s", "e">>,
    <<"g", "o", "o", "d">>,
    <<"g", "r", "e", "a", "t">>,
    <<"e", "x", "c", "e", "l", "l", "e", "n", "t">>,
    <<"s", "t", "r", "o", "n", "g">>,
    <<"b", "e", "a", "t">>,
    <<"w", "i", "n", "n", "i", "n", "g">>,
    <<"p", "r", "o", "f", "i", "t">>,
    <<"g", "r", "o", "w", "t", "h">>,
    <<"i", "n", "c", "r", "e", "a", "s", "e">>,
    <<"b", "u", "l", "l">>,
    <<"p", "o", "s", "i", "t", "i", "v", "e">>,
    <<"o", "p", "t", "i", "m", "i", "s", "t", "i", "c">>,
    <<"u", "p", "g", "r", "a", "d", "e">>>>

negative_words ==
  <<<<"s", "e", "l", "l">>,
    <<"b", "e", "a", "r", "i", "s", "h">>,
    <<"c", "r", "a", "s", "h">>,
    <<"d", "u", "m", "p">>,
    <<"l", "o", "s", "s">>,
    <<"d", "o", "w", "n">>,
    <<"f", "a", "l", "l">>,
    <<"b", "a", "d">>,
    <<"t", "e", "r", "r", "i", "b", "l", "e">>,
    <<"w", "e", "a", "k">>,
    <<"m", "i", "s", "s">>,
    <<"l", "o", "s", "i", "n", "g">>,
    <<"d", "e", "c", "l", "i", "n", "e">>,
    <<"d", "e", "c", "r", "e", "a", "s", "e">>,
    <<"b", "e", "a", "r">>,
    <<"n", "e", "g", "a", "t", "i", "v", "e">>,
    <<"p", "e", "s", "s", "i", "m", "i", "s", "t", "i", "c">>,
    <<"d", "o", "w", "n", "g", "r", "a", "d", "e">>,
    <<"s", "h", "o", "r", "t">>>>

\* sum(1 for word in words if word in content)
RECURSIVE CountContained(_, _)
CountContained(words, content) ==
  IF words = <<>> THEN 0
  ELSE (IF Contains(content, Head(words)) THEN 1 ELSE 0)
         + CountContained(Tail(words), content)

\* max(-1.0, min(1.0, x))
Clamp(x) ==
  IF RatLeq(x, <<-1, 1>>) THEN <<-1, 1>>
  ELSE IF RatGeq(x, <<1, 1>>) THEN <<1, 1>>
  ELSE x

\* the scorer without its ticker guard
simple_sentiment_analysis_no_guard(content, ticker) ==
  LET content_lower == lower(content)
      positive_score == CountContained(positive_words, content_lower)
      negative_score == CountContained(negative_words, content_lower)
      total_sentiment_words == positive_score + negative_score
  IN  IF total_sentiment_words = 0 THEN <<0, 1>>
      ELSE Clamp(Rat(positive_score - negative_score, total_sentiment_words))

\* SentimentAnalyzer._simple_sentiment_analysis
simple_sentiment_analysis(content, ticker) ==
  LET content_lower == lower(content)
      ticker_lower == lower(ticker)
      positive_score == CountContained(positive_words, content_lower)
      negative_score == CountContained(negative_words, content_lower)
      total_sentiment_words == positive_score + negative_score
  IN  IF ~Contains(content_lower, ticker_lower) THEN <<0, 1>>
      ELSE IF total_sentiment_words = 0 THEN <<0, 1>>
      ELSE Clamp(Rat(positive_score - negative_score,
                     IF total_sentiment_words > 1 THEN total_sentiment_words ELSE 1))

\* SentimentAnalyzer.analyze_text
analyze_text(content, ticker) == simple_sentiment_analysis(content, ticker)

\* texts are made of up to MaxTokens of these pieces
MaxTokens == 3
Tokens ==
  {<<" ">>, <<"T">>, <<"a", "a">>, <<"x">>, <<"U", "p">>, <<"B", "U", "Y">>,
   <<"b", "u", "l", "l", "i", "s", "h">>, <<"s", "e", "l", "l">>,
   <<"d", "o", "w", "n", "g", "r", "a", "d", "e">>, <<"g", "r", "e", "a", "t">>}

RECURSIVE TokenTexts(_)
TokenTexts(n) ==
  IF n = 0 THEN {<<>>}
  ELSE TokenTexts(n - 1) \cup {t \o k : t \in TokenTexts(n - 1), k \in Tokens}

ScoreTickers == {<<"T">>, <<"A", "A">>, <<"t">>}

\* a text is about to be scored for a ticker
InitScore ==
  /\ stocks = <<>>
  /\ mentions = <<>>
  /\ data_points = NoTable
  /\ dbs = {}
  /\ sqlite_sequence = NoSequence
  /\ connection = "open"
  /\ held = 0
  /\ ds = NoSource
  /\ pc = "idle"
  /\ chan = 0
  /\ pos = 0
  /\ tally = Zero
  /\ subTally = Zero
  /\ total = Zero
  /\ slept = 0
  /\ cur = NoItem
  /\ ret = NoCall
  /\ runs = 0
  /\ xt = NoExtract
  /\ an \in [op : {"analyze_text"}, content : TokenTexts(MaxTokens),
              ticker : ScoreTickers, out : {<<0, 1>>}, done : {FALSE}]

\* SentimentAnalyzer.analyze_text is called
Score ==
  /\ an.op = "analyze_text"
  /\ ~an.done
  /\ an' = [an EXCEPT !.out = analyze_text(an.content, an.ticker), !.done = TRUE]
  /\ UNCHANGED <<storeVars, runVars, ret, xt>>

NextScore == Score

SpecScore == InitScore /\ [][NextScore]_vars

(***************************************************************************)
(* Sentiment annotation of stored mentions and the aggregation over a      *)
(* stock's mentions.                                                       *)
(***************************************************************************)
\* update_sentiment_score that reports success whether or not a row matched
update_sentiment_score_always_true(ms, external_id, score) ==
  [ok |-> TRUE,
   mentions |-> [i \in 1..Len(ms) |->
                   IF ms[i].external_id = external_id
                   THEN [ms[i] EXCEPT !.sentiment_score = score] ELSE ms[i]]]

\* Database.update_sentiment_score: UPDATE mentions SET sentiment_score = ?
\* WHERE external_id = ?; true when a row was updated
update_sentiment_score(ms, external_id, score) ==
  IF ~ExternalIdTaken(ms, external_id)
  THEN [ok |-> FALSE, mentions |-> ms]
  ELSE [ok |-> TRUE,
        mentions |-> [i \in 1..Len(ms) |->
                        IF ms[i].external_id = external_id
                        THEN [ms[i] EXCEPT !.sentiment_score = score] ELSE ms[i]]]

\* the scores the store is asked to record directly
DirectScores == {Rat(1, 2), Rat(-1, 1)}

\* Database.update_sentiment_score called on the store
UpdateSentiment(id, score) ==
  /\ ~Walking
  /\ LET eid == create_external_id("submission", NativeId(id))
         r == update_sentiment_score(mentions, eid, score)
     IN  /\ mentions' = r.mentions
         /\ ret' = [op |-> "update_sentiment_score", exc |-> "none", val |-> r.ok,
                    arg |-> eid, score |-> score]
  /\ UNCHANGED <<stocks, data_points, dbs, sqlite_sequence, connection, held, runVars, xt, an>>

\* the store used through add_mention and update_sentiment_score
NextAnnotate ==
  \/ \E stock_id \in 1..2, id \in Ids : AddMention(stock_id, id)
  \/ \E id \in Ids, score \in DirectScores : UpdateSentiment(id, score)

SpecAnnotate == Init /\ [][NextAnnotate]_vars

\* Database.get_mentions_for_stock without a limit: the rows of the stock
\* with that symbol (their positions in the table)
get_mentions_for_stock(ms, stk, symbol) ==
  {i \in 1..Len(ms) : get_stock_id(stk, symbol) # 0 /\ ms[i].stock_id = get_stock_id(stk, symbol)}

\* a metadata blob of the store that is not JSON; a well-formed blob is
\* written as the dict json.dumps serialised
MalformedBlob == [raw |-> <<"{", "t", "y", "p", "e">>]

\* json.loads on a stored metadata blob: the dict, or JSONDecodeError for a
\* string that is not JSON
json_loads(blob) ==
  IF "raw" \in DOMAIN blob
  THEN [raised |-> TRUE, exc |-> "JSONDecodeError", value |-> <<>>]
  ELSE [raised |-> FALSE, exc |-> "none", value |-> blob]

\* mention.get('url', '').split('/')[-1]
last_segment(url) == IF url = <<>> THEN "" ELSE url[Len(url)]

\* the external id the aggregation rebuilds for a fetched mention:
\* f"reddit_{metadata.get('type', 'unknown')}_{url.split('/')[-1]}"
derived_external_id(mention) ==
  LET metadata == json_loads(mention.metadata).value
  IN  <<"reddit", "_",
        IF "type" \in DOMAIN metadata THEN metadata.type ELSE "unknown",
        "_", last_segment(mention.url)>>

\* the loop that scores every fetched mention again, stored score or not
RECURSIVE analyze_loop_rescoring(_, _, _, _, _, _)
analyze_loop_rescoring(ms, rows, symbol, total_sentiment, analyzed_count, steps) ==
  IF rows = <<>>
  THEN [mentions |-> ms, total_sentiment |-> total_sentiment,
        analyzed_count |-> analyzed_count, steps |-> steps, exc |-> "none"]
  ELSE LET mention == Head(rows)
       IN  IF FALSE
           THEN analyze_loop_rescoring(ms, Tail(rows), symbol,
                      RatAdd(total_sentiment, mention.sentiment_score),
                      analyzed_count + 1,
                      Append(steps, [external_id |-> mention.external_id,
                                     called |-> FALSE, target |-> <<>>,
                                     sentiment |-> mention.sentiment_score,
                                     updated |-> FALSE]))
           ELSE IF json_loads(mention.metadata).raised
           THEN [mentions |-> ms, total_sentiment |-> total_sentiment,
                 analyzed_count |-> analyzed_count, steps |-> steps,
                 exc |-> json_loads(mention.metadata).exc]
           ELSE LET sentiment == analyze_text(mention.content, symbol)
                    external_id == derived_external_id(mention)
                    r == update_sentiment_score(ms, external_id, sentiment)
                IN  analyze_loop_rescoring(r.mentions, Tail(rows), symbol,
                          IF r.ok THEN RatAdd(total_sentiment, sentiment)
                          ELSE total_sentiment,
                          IF r.ok THEN analyzed_count + 1 ELSE analyzed_count,
                          Append(steps, [external_id |-> mention.external_id,
                                         called |-> TRUE, target |-> external_id,
                                         sentiment |-> sentiment,
                                         updated |-> r.ok]))

\* analyze_mentions_for_stock that ignores stored scores
analyze_mentions_rescoring(ms, stk, symbol, order) ==
  LET rows == [k \in 1..Len(order) |-> ms[order[k]]]
  IN  IF rows = <<>>
      THEN [mentions |-> ms, steps |-> <<>>, exc |-> "none",
            result |-> [average_sentiment |-> <<0, 1>>, total_mentions |-> 0,
                        analyzed |-> 0]]
      ELSE LET r == analyze_loop_rescoring(ms, rows, symbol, <<0, 1>>, 0, <<>>)
           IN  IF r.exc # "none"
               THEN [mentions |-> r.mentions, steps |-> r.steps, exc |-> r.exc,
                     result |-> <<>>]
               ELSE
               [mentions |-> r.mentions, steps |-> r.steps, exc |-> "none",
                result |-> [average_sentiment |->
                              IF r.analyzed_count > 0
                              THEN RatDivInt(r.total_sentiment, r.analyzed_count)
                              ELSE <<0, 1>>,
                            total_mentions |-> Len(rows),
                            analyzed |-> r.analyzed_count]]

\* the loop that counts a freshly scored mention whatever the store answered
RECURSIVE analyze_loop_unconditional(_, _, _, _, _, _)
analyze_loop_unconditional(ms, rows, symbol, total_sentiment, analyzed_count, steps) ==
  IF rows = <<>>
  THEN [mentions |-> ms, total_sentiment |-> total_sentiment,
        analyzed_count |-> analyzed_count, steps |-> steps, exc |-> "none"]
  ELSE LET mention == Head(rows)
       IN  IF mention.sentiment_score # <<>>
           THEN analyze_loop_unconditional(ms, Tail(rows), symbol,
                      RatAdd(total_sentiment, mention.sentiment_score),
                      analyzed_count + 1,
                      Append(steps, [external_id |-> mention.external_id,
                                     called |-> FALSE, target |-> <<>>,
                                     sentiment |-> mention.sentiment_score,
                                     updated |-> FALSE]))
           ELSE IF json_loads(mention.metadata).raised
           THEN [mentions |-> ms, total_sentiment |-> total_sentiment,
                 analyzed_count |-> analyzed_count, steps |-> steps,
                 exc |-> json_loads(mention.metadata).exc]
           ELSE LET sentiment == analyze_text(mention.content, symbol)
                    external_id == derived_external_id(mention)
                    r == update_sentiment_score(ms, external_id, sentiment)
                IN  analyze_loop_unconditional(r.mentions, Tail(rows), symbol,
                          IF TRUE THEN RatAdd(total_sentiment, sentiment)
                          ELSE total_sentiment,
                          IF TRUE THEN analyzed_count + 1 ELSE analyzed_count,
                          Append(steps, [external_id |-> mention.external_id,
                                         called |-> TRUE, target |-> external_id,
                                         sentiment |-> sentiment,
                                         updated |-> r.ok]))

\* analyze_mentions_for_stock that ignores the result of the update
analyze_mentions_unconditional(ms, stk, symbol, order) ==
  LET rows == [k \in 1..Len(order) |-> ms[order[k]]]
  IN  IF rows = <<>>
      THEN [mentions |-> ms, steps |-> <<>>, exc |-> "none",
            result |-> [average_sentiment |-> <<0, 1>>, total_mentions |-> 0,
                        analyzed |-> 0]]
      ELSE LET r == analyze_loop_unconditional(ms, rows, symbol, <<0, 1>>, 0, <<>>)
           IN  IF r.exc # "none"
               THEN [mentions |-> r.mentions, steps |-> r.steps, exc |-> r.exc,
                     result |-> <<>>]
               ELSE
               [mentions |-> r.mentions, steps |-> r.steps, exc |-> "none",
                result |-> [average_sentiment |->
                              IF r.analyzed_count > 0
                              THEN RatDivInt(r.total_sentiment, r.analyzed_count)
                              ELSE <<0, 1>>,
                            total_mentions |-> Len(rows),
                            analyzed |-> r.analyzed_count]]

\* analyze_loop whose decoding failure is swallowed: the mention is left out
\* and the loop goes on
RECURSIVE analyze_loop_skipping(_, _, _, _, _, _)
analyze_loop_skipping(ms, rows, symbol, total_sentiment, analyzed_count, steps) ==
  IF rows = <<>>
  THEN [mentions |-> ms, total_sentiment |-> total_sentiment,
        analyzed_count |-> analyzed_count, steps |-> steps, exc |-> "none"]
  ELSE LET mention == Head(rows)
       IN  IF mention.sentiment_score # <<>>
           THEN analyze_loop_skipping(ms, Tail(rows), symbol,
                      RatAdd(total_sentiment, mention.sentiment_score),
                      analyzed_count + 1,
                      Append(steps, [external_id |-> mention.external_id,
                                     called |-> FALSE, target |-> <<>>,
                                     sentiment |-> mention.sentiment_score,
                                     updated |-> FALSE]))
           ELSE IF json_loads(mention.metadata).raised
           THEN analyze_loop_skipping(ms, Tail(rows), symbol, total_sentiment,
                      analyzed_count, steps)
           ELSE LET sentiment == analyze_text(mention.content, symbol)
                    external_id == derived_external_id(mention)
                    r == update_sentiment_score(ms, external_id, sentiment)
                IN  analyze_loop_skipping(r.mentions, Tail(rows), symbol,
                          IF r.ok THEN RatAdd(total_sentiment, sentiment)
                          ELSE total_sentiment,
                          IF r.ok THEN analyzed_count + 1 ELSE analyzed_count,
                          Append(steps, [external_id |-> mention.external_id,
                                         called |-> TRUE, target |-> external_id,
                                         sentiment |-> sentiment,
                                         updated |-> r.ok]))

\* the for loop of analyze_mentions_for_stock over the fetched mentions; steps
\* records per mention whether update_sentiment_score was called, with which
\* external id, and what it returned
RECURSIVE analyze_loop(_, _, _, _, _, _)
analyze_loop(ms, rows, symbol, total_sentiment, analyzed_count, steps) ==
  IF rows = <<>>
  THEN [mentions |-> ms, total_sentiment |-> total_sentiment,
        analyzed_count |-> analyzed_count, steps |-> steps, exc |-> "none"]
  ELSE LET mention == Head(rows)
       IN  IF mention.sentiment_score # <<>>
           THEN analyze_loop(ms, Tail(rows), symbol,
                      RatAdd(total_sentiment, mention.sentiment_score),
                      analyzed_count + 1,
                      Append(steps, [external_id |-> mention.external_id,
                                     called |-> FALSE, target |-> <<>>,
                                     sentiment |-> mention.sentiment_score,
                                     updated |-> FALSE]))
           ELSE IF json_loads(mention.metadata).raised
           THEN [mentions |-> ms, total_sentiment |-> total_sentiment,
                 analyzed_count |-> analyzed_count, steps |-> steps,
                 exc |-> json_loads(mention.metadata).exc]
           ELSE LET sentiment == analyze_text(mention.content, symbol)
                    external_id == derived_external_id(mention)
                    r == update_sentiment_score(ms, external_id, sentiment)
                IN  analyze_loop(r.mentions, Tail(rows), symbol,
                          IF r.ok THEN RatAdd(total_sentiment, sentiment)
                          ELSE total_sentiment,
                          IF r.ok THEN analyzed_count + 1 ELSE analyzed_count,
                          Append(steps, [external_id |-> mention.external_id,
                                         called |-> TRUE, target |-> external_id,
                                         sentiment |-> sentiment,
                                         updated |-> r.ok]))

\* SentimentAnalyzer.analyze_mentions_for_stock; order is the order in which
\* get_mentions_for_stock returned the rows (rows created within the same
\* second come in no particular order)
analyze_mentions_for_stock(ms, stk, symbol, order) ==
  LET rows == [k \in 1..Len(order) |-> ms[order[k]]]
  IN  IF rows = <<>>
      THEN [mentions |-> ms, steps |-> <<>>, exc |-> "none",
            result |-> [average_sentiment |-> <<0, 1>>, total_mentions |-> 0,
                        analyzed |-> 0]]
      ELSE LET r == analyze_loop(ms, rows, symbol, <<0, 1>>, 0, <<>>)
           IN  IF r.exc # "none"
               THEN [mentions |-> r.mentions, steps |-> r.steps, exc |-> r.exc,
                     result |-> <<>>]
               ELSE
               [mentions |-> r.mentions, steps |-> r.steps, exc |-> "none",
                result |-> [average_sentiment |->
                              IF r.analyzed_count > 0
                              THEN RatDivInt(r.total_sentiment, r.analyzed_count)
                              ELSE <<0, 1>>,
                            total_mentions |-> Len(rows),
                            analyzed |-> r.analyzed_count]]

\* the items the ingestion hands over before an aggregation: 1..NumItems
NumItems == 4
Items == 1..NumItems

\* the upstream items of the aggregation scenarios: a self post, two link
\* posts whose link is the short link of the self post, and comments
AnalysisItem(id) ==
  CASE id = 1 -> [kind |-> "submission", content |-> <<"T", " ", "U", "p">>,
                  url |-> <<"https:", "", "www.reddit.com", "r", "comments",
                            NativeId(1), "title", "">>]
    [] id = 2 -> [kind |-> "submission", content |-> <<"T", " ", "s", "e", "l", "l">>,
                  url |-> <<"https:", "", "redd.it", NativeId(1)>>]
    [] id = 3 -> [kind |-> "submission", content |-> <<"T", " ", "B", "U", "Y">>,
                  url |-> <<"https:", "", "redd.it", NativeId(1)>>]
    [] id = 4 -> [kind |-> "comment", content |-> <<"a", " ", "B", "U", "Y">>,
                  url |-> comment_url(4)]
    [] OTHER -> [kind |-> "comment", content |-> <<" ", "x">>, url |-> comment_url(id)]

\* the data point the walker builds for such an item
analysis_data_point(pattern, id) ==
  LET item == AnalysisItem(id)
  IN  [content |-> item.content, url |-> item.url,
       external_id |-> create_external_id(item.kind, NativeId(id)),
       metadata |-> create_metadata(item.kind, "c1", "author", 1,
                                    extract_tickers_from_text(pattern, item.content))]

AnalysisSymbols == {<<"A">>, <<"T">>}

\* a data source for the tickers "a" and "T" has been constructed on an
\* empty store
InitAnalysis ==
  /\ stocks = ensure_stocks_exist(<<>>, PatternTickers(CfgBoth.tickers))
  /\ mentions = <<>>
  /\ data_points = NoTable
  /\ dbs = {}
  /\ sqlite_sequence = NoSequence
  /\ connection = "open"
  /\ held = 0
  /\ ds = [constructed |-> TRUE, config |-> CfgBoth,
           pattern |-> PatternTickers(CfgBoth.tickers)]
  /\ pc = "idle"
  /\ chan = 0
  /\ pos = 0
  /\ tally = Zero
  /\ subTally = Zero
  /\ total = Zero
  /\ slept = 0
  /\ cur = NoItem
  /\ ret = NoCall
  /\ runs = 0
  /\ xt = NoExtract
  /\ an = NoAnalysis

\* the walker hands an item to process_content_for_tickers
Ingest(id) ==
  LET dp == analysis_data_point(ds.pattern, id)
  IN  \E order \in Orders(extract_tickers_from_text(ds.pattern, dp.content)) :
        LET r == process_content_for_tickers(mentions, stocks, ds.pattern, dp, order)
        IN  /\ mentions' = r.mentions
            /\ an' = [op |-> "process_content_for_tickers", id |-> id,
                      count |-> r.count]
            /\ UNCHANGED <<stocks, data_points, dbs, sqlite_sequence, connection, held, runVars, ret, xt>>

\* SentimentAnalyzer.analyze_mentions_for_stock is called for a symbol
Analyze(symbol) ==
  \E order \in Orders(get_mentions_for_stock(mentions, stocks, symbol)) :
    LET r == analyze_mentions_for_stock(mentions, stocks, symbol, order)
    IN  /\ mentions' = r.mentions
        /\ an' = [op |-> "analyze_mentions_for_stock", symbol |-> symbol,
                  fetched |-> order, steps |-> r.steps, result |-> r.result,
                  exc |-> r.exc]
        /\ UNCHANGED <<stocks, data_points, dbs, sqlite_sequence, connection, held, runVars, ret, xt>>

NextAnalysis ==
  \/ \E id \in Items : Ingest(id)
  \/ \E symbol \in AnalysisSymbols : Analyze(symbol)

SpecAnalysis == InitAnalysis /\ [][NextAnalysis]_vars

\* Database.add_data_point of the walker's store called with a metadata
\* string that is not JSON, for the item with native id `id`
StoreRaw(stock_id, id) ==
  LET dp == analysis_data_point(ds.pattern, id)
      r == add_mention(mentions,
                       NewRow(stock_id, [dp EXCEPT !.metadata = MalformedBlob]))
  IN  /\ mentions' = r.mentions
      /\ an' = [op |-> "add_data_point", id |-> id, stock_id |-> stock_id,
                exc |-> IF r.raised THEN "IntegrityError" ELSE "none"]
      /\ UNCHANGED <<stocks, data_points, dbs, sqlite_sequence, connection, held, runVars, ret, xt>>

\* the items that reach the store before an aggregation over rows that may
\* not decode: 1..MaxRaw
MaxRaw == 2

NextCorrupt ==
  \/ \E id \in 1..MaxRaw : Ingest(id)
  \/ \E symbol \in AnalysisSymbols : Analyze(symbol)
  \/ \E stock_id \in 1..Len(stocks), id \in 1..MaxRaw : StoreRaw(stock_id, id)

SpecCorrupt == InitAnalysis /\ [][NextCorrupt]_vars

(***************************************************************************)
(* The connections of the store operations.  Each operation runs in       *)
(* `with sqlite3.connect(self.db_path) as conn:`; leaving that block        *)
(* commits, or rolls back when the body raised, and does not close the     *)
(* connection.  It is closed when the collector finalises the object,      *)
(* which can happen at any later point.                                    *)
(***************************************************************************)
\* connections open at one time (the process's descriptor limit)
MaxHeld == 3

\* Database.add_stock with the connection it opens
ScopedAddStock(symbol) ==
  /\ held < MaxHeld
  /\ LET r == add_stock(stocks, symbol)
     IN  /\ stocks' = r.stocks
         /\ ret' = [op |-> "add_stock", exc |-> "none", val |-> r.id, arg |-> symbol]
  /\ held' = connection_exit(connect(held))
  /\ UNCHANGED <<mentions, data_points, dbs, sqlite_sequence, connection, runVars, xt, an>>

\* Database.add_mention with the connection it opens; a constraint violation
\* leaves the block through __exit__ as well
ScopedAddMention(stock_id, id) ==
  /\ held < MaxHeld
  /\ LET dp == [content |-> ItemText(id), url |-> submission_url(id),
                external_id |-> create_external_id("submission", NativeId(id)),
                metadata |-> create_metadata("submission", ItemChannel(id), "author", 0, {})]
         r == add_mention(mentions, NewRow(stock_id, dp))
     IN  /\ mentions' = r.mentions
         /\ ret' = [op |-> "add_mention",
                    exc |-> IF r.raised THEN "IntegrityError" ELSE "none",
                    val |-> Len(r.mentions), arg |-> dp.external_id]
  /\ held' = connection_exit(connect(held))
  /\ UNCHANGED <<stocks, data_points, dbs, sqlite_sequence, connection, runVars, xt, an>>

\* Database.mention_exists with the connection it opens
ScopedMentionExists(id) ==
  /\ held < MaxHeld
  /\ ret' = [op |-> "mention_exists", exc |-> "none",
             val |-> mention_exists(mentions, get_source_name,
                                    create_external_id("submission", NativeId(id))),
             arg |-> create_external_id("submission", NativeId(id))]
  /\ held' = connection_exit(connect(held))
  /\ UNCHANGED <<stocks, mentions, data_points, dbs, sqlite_sequence, connection, runVars, xt, an>>

\* Database.get_stock_id with the connection it opens
ScopedGetStockId(symbol) ==
  /\ held < MaxHeld
  /\ ret' = [op |-> "get_stock_id", exc |-> "none",
             val |-> get_stock_id(stocks, symbol), arg |-> symbol]
  /\ held' = connection_exit(connect(held))
  /\ UNCHANGED <<stocks, mentions, data_points, dbs, sqlite_sequence, connection, runVars, xt, an>>

\* the place of an upper-case letter in the alphabet (0 for anything else)
Ord(c) ==
  LET letters == <<"A", "B", "C", "D", "E", "F", "G", "H", "I", "J", "K", "L", "M",
                   "N", "O", "P", "Q", "R", "S", "T", "U", "V", "W", "X", "Y", "Z">>
  IN  IF \E i \in 1..Len(letters) : letters[i] = c
      THEN CHOOSE i \in 1..Len(letters) : letters[i] = c
      ELSE 0

\* a < b for two symbols, as ORDER BY symbol compares them
RECURSIVE SymbolLess(_, _)
SymbolLess(a, b) ==
  IF b = <<>> THEN FALSE
  ELSE IF a = <<>> THEN TRUE
  ELSE IF Head(a) = Head(b) THEN SymbolLess(Tail(a), Tail(b))
  ELSE Ord(Head(a)) < Ord(Head(b))

\* Database.get_stocks: SELECT * FROM stocks ORDER BY symbol (id and symbol
\* of every row)
get_stocks(stk) ==
  LET order == CHOOSE o \in Orders(1..Len(stk)) :
                 \A i, j \in 1..Len(stk) : i < j => SymbolLess(stk[o[i]], stk[o[j]])
  IN  [k \in 1..Len(stk) |-> [id |-> order[k], symbol |-> stk[order[k]]]]

\* Database.get_stocks with the connection it opens
ScopedGetStocks ==
  /\ held < MaxHeld
  /\ ret' = [op |-> "get_stocks", exc |-> "none", val |-> get_stocks(stocks)]
  /\ held' = connection_exit(connect(held))
  /\ UNCHANGED <<stocks, mentions, data_points, dbs, sqlite_sequence, connection, runVars, xt, an>>

\* the rows Database.get_mentions(stock_id, source) selects; a stock_id of 0
\* or None and a source of None or "" leave their filter out
get_mentions(ms, stock_id, source) ==
  {i \in 1..Len(ms) :
     /\ stock_id # 0 => ms[i].stock_id = stock_id
     /\ source \notin {"None", ""} => ms[i].source = source}

\* Database.get_mentions with the connection it opens; the rows come
\* ordered by collected_at, which leaves rows of the same second in no
\* particular order
ScopedGetMentions(stock_id, source) ==
  /\ held < MaxHeld
  /\ \E order \in Orders(get_mentions(mentions, stock_id, source)) :
       ret' = [op |-> "get_mentions", exc |-> "none", val |-> order]
  /\ held' = connection_exit(connect(held))
  /\ UNCHANGED <<stocks, mentions, data_points, dbs, sqlite_sequence, connection, runVars, xt, an>>

\* a pass of the collector finalises connection objects no longer
\* referenced: those of the generations it scans, which may be all of them
\* or some
Collect ==
  /\ held > 0
  /\ held' \in 0..(held - 1)
  /\ UNCHANGED <<stocks, mentions, data_points, dbs, sqlite_sequence, connection, runVars, ret, xt, an>>

NextScoped ==
  \/ \E symbol \in Symbols : ScopedAddStock(symbol)
  \/ \E symbol \in Symbols : ScopedGetStockId(symbol)
  \/ \E stock_id \in 1..2, id \in Ids : ScopedAddMention(stock_id, id)
  \/ ScopedGetStocks
  \/ \E stock_id \in 0..2, source \in {"None", "", get_source_name} :
       ScopedGetMentions(stock_id, source)
  \/ \E id \in Ids : ScopedMentionExists(id)
  \/ Collect

SpecScoped == Init /\ [][NextScoped]_vars

(***************************************************************************)
(* External ids on their own: two items, each a content type and a native *)
(* id, are identified in successive runs.  An id is rendered as the string *)
(* the f-string produces, character by character.                          *)
(***************************************************************************)
\* the longest native id
MaxIdLen == 2

\* the characters of the string literals of create_external_id's call sites
Chars(str) ==
  CASE str = "reddit" -> <<"r", "e", "d", "d", "i", "t">>
    [] str = "submission" -> <<"s", "u", "b", "m", "i", "s", "s", "i", "o", "n">>
    [] str = "comment" -> <<"c", "o", "m", "m", "e", "n", "t">>
    [] str = "_" -> <<"_">>

\* native ids are base-36 strings
IdChars == {"0", "7", "s"}
NativeIds == UNION {[1..n -> IdChars] : n \in 1..MaxIdLen}

\* the string f"reddit_{content_type}_{content_id}" evaluates to
rendered(eid) ==
  Chars(eid[1]) \o Chars(eid[2]) \o Chars(eid[3]) \o Chars(eid[4]) \o eid[5]

IdentItems == [kind : {"submission", "comment"}, id : NativeIds]

InitIdent ==
  /\ stocks = <<>>
  /\ mentions = <<>>
  /\ data_points = NoTable
  /\ dbs = {}
  /\ sqlite_sequence = NoSequence
  /\ connection = "open"
  /\ held = 0
  /\ ds = NoSource
  /\ pc = "idle"
  /\ chan = 0
  /\ pos = 0
  /\ tally = Zero
  /\ subTally = Zero
  /\ total = Zero
  /\ slept = 0
  /\ cur = NoItem
  /\ ret = NoCall
  /\ runs = 0
  /\ xt = NoExtract
  /\ an \in [op : {"create_external_id"}, a : IdentItems, b : IdentItems,
              ids : {<<>>}]

\* one more run calls create_external_id for both items (lines 141 and 174)
Identify ==
  /\ an.op = "create_external_id"
  /\ Len(an.ids) < MaxRuns
  /\ an' = [an EXCEPT !.ids =
              Append(@, [a |-> rendered(create_external_id(an.a.kind, an.a.id)),
                         b |-> rendered(create_external_id(an.b.kind, an.b.id))])]
  /\ UNCHANGED <<storeVars, runVars, ret, xt>>

SpecIdent == InitIdent /\ [][Identify]_vars

(***************************************************************************)
(* analyze_all_stocks over a store the walker filled with comments.        *)
(***************************************************************************)
\* the comments the walker stores before the stocks are analysed
MaxAdvise == 5

\* the bodies of those comments
AdviceTexts ==
  {<<"T", " ", "B", "U", "Y">>, <<"T", " ", "s", "e", "l", "l">>,
   <<"a", " ", "B", "U", "Y">>}

\* Database.get_all_stocks: the symbols of the stocks table
get_all_stocks(stk) == Range(stk)

\* the loop of analyze_all_stocks over `listing`, the symbols in the order
\* get_all_stocks returned them: every way the calls can come out, each
\* get_mentions_for_stock call returning its rows in some order
RECURSIVE analyze_all_stocks(_, _, _, _)
analyze_all_stocks(ms, stk, cfg, listing) ==
  IF listing = <<>> THEN {[mentions |-> ms, exc |-> "none", results |-> <<>>]}
  ELSE UNION {
         LET stock == Head(listing)
             analysis == analyze_mentions_for_stock(ms, stk, stock, order)
         IN  IF analysis.exc # "none"
             THEN {[mentions |-> analysis.mentions, exc |-> analysis.exc,
                    results |-> <<>>]}
             ELSE LET recommendation ==
                        get_recommendation(cfg, analysis.result.average_sentiment,
                                           analysis.result.total_mentions)
                      entry == [stock |-> stock,
                                average_sentiment |-> analysis.result.average_sentiment,
                                total_mentions |-> analysis.result.total_mentions,
                                analyzed |-> analysis.result.analyzed,
                                recommendation |-> recommendation]
                  IN  {[rest EXCEPT !.results = IF rest.exc = "none"
                                                THEN <<entry>> \o @ ELSE @] :
                         rest \in analyze_all_stocks(analysis.mentions, stk, cfg,
                                                     Tail(listing))}
         : order \in Orders(get_mentions_for_stock(ms, stk, Head(listing)))}

\* the walker stores the next comment of the feed
IngestComment(text) ==
  /\ Len(mentions) < MaxAdvise
  /\ LET id == Len(mentions) + 1
         found == extract_tickers_from_text(ds.pattern, text)
         dp == [content |-> text, url |-> comment_url(id),
                external_id |-> create_external_id("comment", NativeId(id)),
                metadata |-> create_metadata("comment", "c1", "author", 1, found)]
     IN  \E order \in Orders(found) :
           LET r == process_content_for_tickers(mentions, stocks, ds.pattern, dp, order)
           IN  /\ mentions' = r.mentions
               /\ an' = [op |-> "process_content_for_tickers", id |-> id,
                         count |-> r.count]
  /\ UNCHANGED <<stocks, data_points, dbs, sqlite_sequence, connection, held, runVars, ret, xt>>

\* SentimentAnalyzer.analyze_all_stocks is called (default thresholds)
AnalyzeAll ==
  \E listing \in Orders(get_all_stocks(stocks)) :
    \E out \in analyze_all_stocks(mentions, stocks, DefaultConfig, listing) :
      /\ mentions' = out.mentions
      /\ an' = [op |-> "analyze_all_stocks", exc |-> out.exc, results |-> out.results]
      /\ UNCHANGED <<stocks, data_points, dbs, sqlite_sequence, connection, held, runVars, ret, xt>>

NextAdvise ==
  \/ \E text \in AdviceTexts : IngestComment(text)
  \/ AnalyzeAll

SpecAdvise == InitAnalysis /\ [][NextAdvise]_vars


(***************************************************************************)
(* The database file in the middle of the move from data_points to         *)
(* mentions.  The other specifications treat the walker's table and the    *)
(* analyser's table as the one mention log; here both tables are kept      *)
(* apart, rows carry their id column, and the operations are those that    *)
(* write either table without going through the walker.                    *)
(***************************************************************************)
\* rows a table holds at most
MaxRows == 2

\* a text column of a row: what the value was built as, and the value; a
\* column that is NULL is Cell("null", <<>>)
Cell(is, v) == [is |-> is, v |-> v]

\* column = value in SQL: two columns hold the same string only when both
\* agree, and NULL is equal to nothing, NULL included
SameCell(a, b) == a.is # "null" /\ a.is = b.is /\ a.v = b.v

\* some row of the table has this external_id
CellTaken(tbl, eid) == \E i \in 1..Len(tbl) : SameCell(tbl[i].external_id, eid)

\* INSERT INTO <table> (stock_id, source, content, url, external_id,
\* metadata) VALUES (?, ?, ?, ?, ?, ?) with a UNIQUE external_id:
\* cursor.lastrowid, sqlite3.IntegrityError and the table as it was, or
\* sqlite3.OperationalError without the table.  The new rowid is one more
\* than the largest id of the table; with AUTOINCREMENT one more than the
\* largest rowid the table's sequence has recorded, which the INSERT then
\* sets to the new rowid; a rejected INSERT leaves the sequence as it was
insert_row(tbl, table_name, stock_id, source, content, url, external_id, metadata) ==
  IF tbl = NoTable
  THEN [exc |-> "OperationalError", table |-> tbl, lastrowid |-> 0,
        seq |-> sqlite_sequence]
  ELSE
  LET seq == sqlite_sequence[table_name]
      largest == IF tbl = <<>> THEN 0
                 ELSE CHOOSE n \in {tbl[i].id : i \in 1..Len(tbl)} :
                        \A i \in 1..Len(tbl) : tbl[i].id <= n
      rowid == (IF seq > largest THEN seq ELSE largest) + 1
  IN  IF CellTaken(tbl, external_id)
      THEN [exc |-> "IntegrityError", table |-> tbl, lastrowid |-> 0,
            seq |-> sqlite_sequence]
      ELSE [exc |-> "none",
            table |-> Append(tbl, [id |-> rowid, stock_id |-> stock_id,
                                   source |-> source, content |-> content,
                                   url |-> url, external_id |-> external_id,
                                   metadata |-> metadata,
                                   sentiment_score |-> <<>>]),
            lastrowid |-> rowid,
            seq |-> IF sqlite_sequence.autoincrement
                    THEN [sqlite_sequence EXCEPT ![table_name] = rowid]
                    ELSE sqlite_sequence]

\* INSERT OR IGNORE INTO mentions SELECT * FROM data_points: a row is left
\* out when its id or its external_id is already in the target; the
\* sequence of the target records the id of every row whose id was free,
\* copied or left out for its external_id
RECURSIVE insert_or_ignore(_, _, _)
insert_or_ignore(target, seq, rows) ==
  IF rows = <<>> THEN [table |-> target, seq |-> seq]
  ELSE LET row == Head(rows)
           id_taken == \E i \in 1..Len(target) : target[i].id = row.id
           clash == id_taken \/ CellTaken(target, row.external_id)
       IN  insert_or_ignore(IF clash THEN target ELSE Append(target, row),
                            IF ~id_taken /\ row.id > seq THEN row.id ELSE seq,
                            Tail(rows))

\* the arguments a caller holds for the submission with native id `id`;
\* with id 0 the caller passes the content only and url, external_id and
\* metadata keep their default None
migrate_data_point(id) ==
  IF id = 0
  THEN [content |-> Cell("content", ItemText(1)),
        url |-> Cell("null", <<>>),
        external_id |-> Cell("null", <<>>),
        metadata |-> Cell("null", <<>>)]
  ELSE [content |-> Cell("content", ItemText(id)),
        url |-> Cell("url", submission_url(id)),
        external_id |-> Cell("external_id", create_external_id("submission", NativeId(id))),
        metadata |-> Cell("metadata",
                          create_metadata("submission", ItemChannel(id), "author", 0, {}))]

\* Database(file) of the legacy store: its schema creates data_points when
\* the table is missing
OpenLegacy ==
  /\ data_points' = IF data_points = NoTable THEN <<>> ELSE data_points
  /\ dbs' = dbs \cup {"legacy"}
  /\ ret' = [op |-> "Database", exc |-> "none", val |-> "data_points"]
  /\ UNCHANGED <<stocks, mentions, sqlite_sequence, connection, held, runVars, xt, an>>

\* Database(file) of the store: its schema creates mentions when the table
\* is missing
OpenCore ==
  /\ mentions' = IF mentions = NoTable THEN <<>> ELSE mentions
  /\ dbs' = dbs \cup {"core"}
  /\ ret' = [op |-> "Database", exc |-> "none", val |-> "mentions"]
  /\ UNCHANGED <<stocks, data_points, sqlite_sequence, connection, held, runVars, xt, an>>

\* Database.add_data_point of the legacy store (src/database.py) on an
\* object built earlier; after the rename the table is gone and the INSERT
\* raises OperationalError
AddDataPoint(stock_id, source, id) ==
  /\ "legacy" \in dbs
  /\ data_points # NoTable => Len(data_points) < MaxRows
  /\ LET dp == migrate_data_point(id)
         r == insert_row(data_points, "data_points",
                         stock_id, Cell("source", source),
                         dp.content, dp.url, dp.external_id, dp.metadata)
     IN  /\ data_points' = r.table
         /\ sqlite_sequence' = r.seq
         /\ ret' = [op |-> "add_data_point", exc |-> r.exc,
                    val |-> r.lastrowid, arg |-> dp.external_id]
  /\ UNCHANGED <<stocks, mentions, dbs, connection, held, runVars, xt, an>>

\* Database.add_mention of the store (advisor/core/database.py)
PutMention(stock_id, id) ==
  /\ "core" \in dbs
  /\ mentions # NoTable => Len(mentions) < MaxRows
  /\ LET dp == migrate_data_point(id)
         r == insert_row(mentions, "mentions",
                         stock_id, Cell("source", get_source_name),
                         dp.content, dp.url, dp.external_id, dp.metadata)
     IN  /\ mentions' = r.table
         /\ sqlite_sequence' = r.seq
         /\ ret' = [op |-> "add_mention", exc |-> r.exc,
                    val |-> r.lastrowid, arg |-> dp.external_id]
  /\ UNCHANGED <<stocks, data_points, dbs, connection, held, runVars, xt, an>>

\* DataSource.store_mention of advisor/core/data_source.py: it passes
\* (stock_id, content, url, external_id, metadata) to add_mention, whose
\* parameters are (stock_id, source, content, url, external_id, metadata),
\* so every value lands one column to the left and metadata is None; an
\* IntegrityError is not caught
StoreMention(stock_id, id) ==
  /\ "core" \in dbs
  /\ mentions # NoTable => Len(mentions) < MaxRows
  /\ LET dp == migrate_data_point(id)
         r == insert_row(mentions, "mentions",
                         stock_id, dp.content, dp.url,
                         dp.external_id, dp.metadata, Cell("null", <<>>))
     IN  /\ mentions' = r.table
         /\ sqlite_sequence' = r.seq
         /\ ret' = [op |-> "store_mention", exc |-> r.exc,
                    val |-> r.lastrowid, arg |-> dp.external_id]
  /\ UNCHANGED <<stocks, data_points, dbs, connection, held, runVars, xt, an>>

\* DataSource.is_duplicate of advisor/core/data_source.py: it calls
\* self.db.is_duplicate, which Database does not define
CoreIsDuplicate(id) ==
  /\ "core" \in dbs
  /\ ret' = [op |-> "is_duplicate", exc |-> "AttributeError", val |-> <<>>,
             arg |-> migrate_data_point(id).external_id]
  /\ UNCHANGED <<storeVars, runVars, xt, an>>

\* migrate_database(): nothing without a data_points table; with a mentions
\* table the rows are copied and data_points stays; without one data_points
\* is renamed to mentions and takes its sequence along
Migrate ==
  /\ IF data_points = NoTable
     THEN UNCHANGED <<mentions, data_points, sqlite_sequence>>
     ELSE IF mentions # NoTable
     THEN LET r == insert_or_ignore(mentions, sqlite_sequence.mentions, data_points)
          IN  /\ mentions' = r.table
              /\ sqlite_sequence' =
                   IF sqlite_sequence.autoincrement
                   THEN [sqlite_sequence EXCEPT !.mentions = r.seq]
                   ELSE sqlite_sequence
              /\ UNCHANGED data_points
     ELSE /\ mentions' = data_points
          /\ data_points' = NoTable
          /\ sqlite_sequence' = [sqlite_sequence EXCEPT
                                   !.mentions = sqlite_sequence.data_points,
                                   !.data_points = 0]
  /\ ret' = [op |-> "migrate_database", exc |-> "none", val |-> <<>>]
  /\ UNCHANGED <<stocks, dbs, connection, held, runVars, xt, an>>

\* a database file with neither table, either, or both, no rows yet, no
\* Database object built on it in this process, and a schema (not part of
\* the sources) that declares the ids AUTOINCREMENT or does not
InitMigrate ==
  /\ stocks = <<>>
  /\ mentions \in {NoTable, <<>>}
  /\ data_points \in {NoTable, <<>>}
  /\ dbs = {}
  /\ sqlite_sequence \in {[NoSequence EXCEPT !.autoincrement = b] : b \in BOOLEAN}
  /\ connection = "open"
  /\ held = 0
  /\ ds = NoSource
  /\ pc = "idle"
  /\ chan = 0
  /\ pos = 0
  /\ tally = Zero
  /\ subTally = Zero
  /\ total = Zero
  /\ slept = 0
  /\ cur = NoItem
  /\ ret = NoCall
  /\ runs = 0
  /\ xt = NoExtract
  /\ an = NoAnalysis

NextMigrate ==
  \/ OpenLegacy
  \/ OpenCore
  \/ \E stock_id \in 1..2, source \in {get_source_name, "sec"}, id \in 0..MaxRows :
       AddDataPoint(stock_id, source, id)
  \/ \E stock_id \in 1..2, id \in 0..MaxRows : PutMention(stock_id, id)
  \/ \E stock_id \in 1..2, id \in 1..MaxRows : StoreMention(stock_id, id)
  \/ \E id \in 1..MaxRows : CoreIsDuplicate(id)
  \/ Migrate

SpecMigrate == InitMigrate /\ [][NextMigrate]_vars

(***************************************************************************)
(* Properties.                                                             *)
(***************************************************************************)
\* positions of the rows of a table that carry external id eid
RowsWith(ms, eid) == {i \in 1..Len(ms) : ms[i].external_id = eid}

\* the external id and the content of the item in cur
CurEid(c) == <<"reddit", "_", c.kind, "_", NativeId(c.id)>>
CurContent(c) == IF c.kind = "submission" THEN strip(ItemText(c.id)) ELSE ItemText(c.id)

\* this step ran the loop body on an item and stayed in the sequence
Continued == Walking /\ pos' = pos + 1

\* this step handed an item to process_content_for_tickers
Processed == Continued /\ cur'.outcome = "processed"

\* C1: re-running ingestion is idempotent per item: a process call for an
\* external id that is already committed returns 0 and adds no row, and an
\* item that matches a tracked ticker is committed after its first process
\* call, so it is committed exactly once.
C1_IdempotentIngestion ==
  [][Processed =>
       LET eid == CurEid(cur')
       IN  /\ RowsWith(mentions, eid) # {} =>
                cur'.count = 0 /\ mentions' = mentions
           /\ (\E t \in extract_tickers_from_text(ds.pattern, CurContent(cur')) :
                 get_stock_id(stocks, t) # 0) =>
                Cardinality(RowsWith(mentions', eid)) = 1]_vars

\* a second run met an item the first run had committed
C1_Witness ==
  /\ runs = 2
  /\ cur.outcome = "processed"
  /\ cur.path = "duplicate"
  /\ cur.count = 0
  /\ RowsWith(mentions, CurEid(cur)) # {}

\* C2: in every reachable state no two mention rows share an external id.
C2_UniqueExternalId ==
  \A i, j \in 1..Len(mentions) :
    mentions[i].external_id = mentions[j].external_id => i = j

\* the store holds rows of two items and has rejected an insert
C2_Witness ==
  /\ Len(mentions) >= 2
  /\ \E k \in 1..Len(cur.log) : ~cur.log[k].ok

\* C3: an insert whose external id already exists is rejected as a value,
\* not an exception: no add_mention call on the store ends in an exception,
\* the store then holds exactly one row with that external id, and no
\* existing row changes.
C3_InsertRejectedAsValue ==
  [][ret'.op = "add_mention" =>
       /\ ret'.exc = "none"
       /\ Cardinality(RowsWith(mentions', ret'.arg)) = 1
       /\ \A i \in 1..Len(mentions) :
            i <= Len(mentions') /\ mentions'[i] = mentions[i]]_vars

\* what the code does on the second insert: add_mention raises
\* IntegrityError, and the store is left as it was with its one row
C3_DuplicateInsertRaises ==
  [][(ret'.op = "add_mention" /\ RowsWith(mentions, ret'.arg) # {}) =>
       /\ ret'.exc = "IntegrityError"
       /\ mentions' = mentions
       /\ Cardinality(RowsWith(mentions', ret'.arg)) = 1]_vars

\* add_mention has raised on an external id the store already holds
C3_WitnessRaised ==
  /\ ret.op = "add_mention"
  /\ ret.exc = "IntegrityError"
  /\ Cardinality(RowsWith(mentions, ret.arg)) = 1

\* the wrapper of the walker turns the exception into a value: of the
\* store_data_point calls of one process call the first returns true and
\* every later one false, the store then holds exactly one row with that
\* external id, it is the row of the first insert, and no existing row changes.
C3_DuplicateInsertRejected ==
  [][Processed =>
       LET eid == CurEid(cur')
           log == cur'.log
       IN  /\ \A k \in 1..Len(log) :
                log[k].ok <=> (k = 1 /\ RowsWith(mentions, eid) = {})
           /\ Len(log) >= 1 =>
                /\ Cardinality(RowsWith(mentions', eid)) = 1
                /\ \A i \in RowsWith(mentions', eid) :
                     mentions'[i].stock_id = log[1].stock_id
           /\ \A i \in 1..Len(mentions) :
                i <= Len(mentions') /\ mentions'[i] = mentions[i]]_vars

\* one process call inserted for two tickers: first accepted, second rejected
C3_Witness ==
  /\ Len(cur.log) = 2
  /\ cur.log[1].ok
  /\ ~cur.log[2].ok
  /\ Cardinality(RowsWith(mentions, CurEid(cur))) = 1

\* the window of the running data source
MinDays == get_config_value(ds.config, "min_days", DefaultMinDays)
MaxDays == get_config_value(ds.config, "max_days", DefaultMaxDays)

\* this step visited the item now in cur: it either stayed in the sequence or
\* left it on an item (a sequence is never left twice on the same item)
Visited == Walking /\ cur'.kind # "none" /\ (cur' # cur \/ pos' = pos + 1)

\* the configured tickers the text of the item in cur mentions
MentionedTickers(c) ==
  extract_tickers_from_text(ds.pattern, CurContent(c)) \cap Range(ds.pattern)

\* C4: for a new in-window item whose text mentions k distinct configured
\* tickers, process returns k and creates k rows, one per matched ticker.
C4_OneRowPerTicker ==
  (cur.outcome = "processed" /\ cur.path = "stored") =>
    /\ cur.count = Cardinality(MentionedTickers(cur))
    /\ Cardinality(RowsWith(mentions, CurEid(cur))) = Cardinality(MentionedTickers(cur))

\* C5: once an item older than max_days is visited the walk leaves the
\* sequence: the step stores nothing, counts nothing and no later item of the
\* sequence is visited, so every step that stays in a sequence visited an
\* item no older than max_days.
C5_EarlyTermination ==
  [][((Visited /\ cur'.age > MaxDays) =>
        (/\ pc' # pc
         /\ pos' = 0
         /\ mentions' = mentions
         /\ tally' = Zero
         /\ (pc = "submissions" => subTally' = tally)))
     /\ (Continued => cur'.age <= MaxDays)]_vars

\* the second item of a sequence was too old, after a first one was stored
C5_Witness ==
  /\ cur.outcome = "break"
  /\ cur.index = 2
  /\ cur.age > MaxDays
  /\ pc = "comments"
  /\ pos = 0
  /\ subTally.stored = 1

\* C6: an item younger than min_days is skipped without ending the walk, and
\* every row the walker stores comes from an item whose age at collection
\* lies in [min_days, max_days].
C6_TimeWindow ==
  [][((Visited /\ cur'.age < MinDays) =>
        (/\ pc' = pc
         /\ pos' = pos + 1
         /\ mentions' = mentions
         /\ tally' = tally))
     /\ (\A i \in (Len(mentions) + 1)..Len(mentions') :
           /\ MinDays <= mentions'[i].metadata.age_days
           /\ mentions'[i].metadata.age_days <= MaxDays)]_vars

\* the first comment of a sequence was too young and skipped, the second one
\* was visited and stored
C6_Witness ==
  /\ pc = "comments"
  /\ pos = 2
  /\ cur.index = 2
  /\ cur.outcome = "processed"
  /\ cur.count = 1
  /\ tally = [stored |-> 1, skipped |-> 0]
  /\ MinDays > 0

\* C7: an upstream feed error in one channel does not end the run: scrape
\* never raises out of the run, it goes on to the remaining channels and
\* returns its tally.
C7_ChannelIsolation == pc # "raised" /\ ~(ret.op = "scrape" /\ ret.exc = "UpstreamError")

\* positions of the rows of the stocks table that hold symbol sym
StockRows(stk, sym) == {i \in 1..Len(stk) : stk[i] = sym}

\* C8: add_stock is idempotent and case-normalising: calls whose symbols are
\* equal after upper-casing return the same identifier, none raises, and the
\* store holds exactly one row for the upper-cased symbol; rows never move.
C8_UpsertStockIdempotent ==
  [][/\ \A i \in 1..Len(stocks) : i <= Len(stocks') /\ stocks'[i] = stocks[i]
     /\ ret'.op = "add_stock" =>
          (/\ ret'.exc = "none"
           /\ ret'.val \in 1..Len(stocks')
           /\ StockRows(stocks', upper(ret'.arg)) = {ret'.val}
           /\ (StockRows(stocks, upper(ret'.arg)) # {} =>
                 stocks' = stocks /\ ret'.val \in StockRows(stocks, upper(ret'.arg)))
           /\ ((ret.op = "add_stock" /\ upper(ret.arg) = upper(ret'.arg)) =>
                 ret'.val = ret.val))]_vars

\* "a" was added while the row "A" already existed next to another stock
C8_Witness ==
  /\ ret.op = "add_stock"
  /\ ret.arg = <<"a">>
  /\ ret.val = 1
  /\ stocks = << <<"A">>, <<"T">> >>

\* the data operations of the store
DataOps == {"add_stock", "get_stock_id", "add_mention", "mention_exists"}

\* C9: once close() has been called the store stays closed and every data
\* operation fails with RuntimeError "Database connection not initialized".
C9_ClosedStoreFailsFast ==
  (connection = "None" /\ ret.op \in DataOps) => ret.exc = "RuntimeError"

\* s[i..j] is a maximal run of word characters of s
WordRunAt(s, i, j) ==
  /\ i <= j
  /\ \A k \in i..j : IsWordChar(s[k])
  /\ (i = 1 \/ ~IsWordChar(s[i - 1]))
  /\ (j = Len(s) \/ ~IsWordChar(s[j + 1]))

\* the whole words of a text
Words(s) ==
  {SubSeq(s, p[1], p[2]) :
     p \in {q \in (1..Len(s)) \X (1..Len(s)) : WordRunAt(s, q[1], q[2])}}

\* C10: for every text and every configured ticker list, the empty list
\* included, extraction returns exactly the configured tickers that occur in
\* the upper-cased text as whole words, and nothing outside the list.
C10_ExactWholeWordMatches ==
  xt.done =>
    xt.out = {upper(xt.tickers[i]) : i \in 1..Len(xt.tickers)} \cap Words(upper(xt.text))

\* the same statement for the non-empty ticker lists, where it holds
ExtractNonEmptyLists == xt.tickers # <<>> => C10_ExactWholeWordMatches

\* what a caller of process_content_for_tickers can see for the item
\* (kind, id) in the current store: the returned count, next to the path
\* taken inside, one outcome for every order in which list(set(matches))
\* can enumerate the found tickers
ProcessOf(kind, id) ==
  LET dp == IF kind = "submission"
            THEN submission_data_point(ds.pattern, ItemChannel(id), id, MinDays)
            ELSE comment_data_point(ds.pattern, ItemChannel(id), id, MinDays)
      found == extract_tickers_from_text(ds.pattern, dp.content)
  IN  {process_content_for_tickers(mentions, stocks, ds.pattern, dp, order) :
         order \in Orders(found)}

Kinds == {"submission", "comment"}

\* C11: the outcome of process for an item with no configured ticker differs,
\* for the caller, from its outcome for a duplicate item, so that the tally
\* can separate the two skip reasons.
C11_SkipReasonsDistinguishable ==
  ds.constructed =>
    \A k1, k2 \in Kinds, i, j \in Ids :
      \A p1 \in ProcessOf(k1, i), p2 \in ProcessOf(k2, j) :
        (p1.path = "no_ticker" /\ p2.path = "duplicate") => p1.count # p2.count

\* positions of the calls named op in a call trace
CallsOf(tr, op) == {i \in 1..Len(tr) : tr[i] = op}

\* C12: one process call checks the external id at most once, however many
\* tickers matched; the check comes after an extraction that found a ticker
\* and before every insert, and no insert is attempted for an id the check
\* reports as present.
C12_DedupCheckOnce ==
  [][Processed =>
       LET tr == cur'.trace
           checks == CallsOf(tr, "is_duplicate")
           stores == CallsOf(tr, "store_data_point")
           found == extract_tickers_from_text(ds.pattern, CurContent(cur'))
       IN  /\ Cardinality(checks) <= 1
           /\ tr[1] = "extract_tickers_from_text"
           /\ (checks # {}) <=> (found # {})
           /\ \A c \in checks : c > 1 /\ \A st \in stores : c < st
           /\ stores # {} => checks # {}
           /\ is_duplicate(mentions, CurEid(cur')) => stores = {}]_vars

\* a process call matched two tickers: one check, then two inserts
C12_Witness ==
  /\ cur.outcome = "processed"
  /\ cur.trace = <<"extract_tickers_from_text", "is_duplicate",
                   "store_data_point", "store_data_point">>

\* the thresholds a configuration yields
BuyOf(cfg) == config_get(cfg, "sentiment_threshold_buy", DefaultBuyThreshold)
SellOf(cfg) == config_get(cfg, "sentiment_threshold_sell", DefaultSellThreshold)

\* C15: with fewer than 5 mentions the recommendation is HOLD, whatever the
\* sentiment and the thresholds.
C15_InsufficientEvidenceGate ==
  (an.op = "get_recommendation" /\ an.done /\ an.mention_count < 5) => an.out = "HOLD"

\* recommend(0.9, 3) under the default thresholds
C15_Witness ==
  /\ an.op = "get_recommendation"
  /\ an.done
  /\ an.config = DefaultConfig
  /\ an.sentiment_score = Rat(9, 10)
  /\ an.mention_count = 3
  /\ an.out = "HOLD"

\* C16: with at least 5 mentions the recommendation is BUY when the sentiment
\* is at or above the buy threshold, else SELL when it is at or below the
\* sell threshold, else HOLD; the thresholds are the configured ones and
\* 0.7 / 0.3 when none is configured.
C16_ThresholdRule ==
  (an.op = "get_recommendation" /\ an.done /\ an.mention_count >= 5) =>
    LET configured == an.config.analysis.isdict
        items == an.config.analysis.items
        buy == IF configured /\ "sentiment_threshold_buy" \in DOMAIN items
               THEN items.sentiment_threshold_buy ELSE <<7, 10>>
        sell == IF configured /\ "sentiment_threshold_sell" \in DOMAIN items
                THEN items.sentiment_threshold_sell ELSE <<3, 10>>
        s == an.sentiment_score
    IN  an.out = IF s[1] * buy[2] >= buy[1] * s[2] THEN "BUY"
                 ELSE IF s[1] * sell[2] <= sell[1] * s[2] THEN "SELL"
                 ELSE "HOLD"

\* recommend(0.75, 10) with the buy threshold raised to 0.8
C16_Witness ==
  /\ an.op = "get_recommendation"
  /\ an.done
  /\ an.mention_count = 10
  /\ BuyOf(an.config) = Rat(8, 10)
  /\ an.sentiment_score = Rat(3, 4)
  /\ an.out = "HOLD"

\* the sell threshold lies above the buy threshold
Misconfigured(cfg) == ~RatLeq(SellOf(cfg), BuyOf(cfg))

\* C17 as stated: with the sell threshold above the buy threshold and at
\* least 5 mentions, a sentiment between the two thresholds yields HOLD.
C17_HoldBetweenSwappedThresholds ==
  (/\ an.op = "get_recommendation" /\ an.done /\ an.mention_count >= 5
   /\ Misconfigured(an.config)
   /\ RatGeq(an.sentiment_score, BuyOf(an.config))
   /\ RatLeq(an.sentiment_score, SellOf(an.config)))
    => an.out = "HOLD"

\* C17 amended: with the sell threshold above the buy threshold the call
\* still returns one of BUY/SELL/HOLD, but with at least 5 mentions it never
\* returns HOLD: a sentiment at or above the buy threshold, the band between
\* the thresholds included, yields BUY and every other sentiment yields SELL.
C17_SwappedThresholdsNeverHold ==
  (an.op = "get_recommendation" /\ an.done /\ Misconfigured(an.config)) =>
    /\ an.out \in {"BUY", "SELL", "HOLD"}
    /\ an.mention_count >= 5 =>
         an.out = IF RatGeq(an.sentiment_score, BuyOf(an.config)) THEN "BUY" ELSE "SELL"

\* a sentiment of 0.5 between buy 0.3 and sell 0.7 with enough mentions
C17_Witness ==
  /\ an.op = "get_recommendation"
  /\ an.done
  /\ Misconfigured(an.config)
  /\ an.mention_count >= 5
  /\ an.sentiment_score = Rat(1, 2)
  /\ an.out = "BUY"

\* the list words a lower-cased text contains
WordsIn(words, t) == {i \in 1..Len(words) : Contains(t, words[i])}

\* C18: the score ignores case; it is exactly 0 when the ticker does not
\* occur in the text or no positive or negative word occurs in it; otherwise
\* it is (pos - neg) / (pos + neg) for the numbers pos and neg of positive
\* and negative list words the text contains as substrings, so it lies in
\* [-1, 1] and is positive exactly when pos > neg.
C18_ScoreFormula ==
  (an.op = "analyze_text" /\ an.done) =>
    LET t == lower(an.content)
        k == lower(an.ticker)
        p == Cardinality(WordsIn(positive_words, t))
        n == Cardinality(WordsIn(negative_words, t))
    IN  /\ an.out = IF ~Contains(t, k) \/ p + n = 0 THEN <<0, 1>>
                    ELSE Rat(p - n, p + n)
        /\ -an.out[2] <= an.out[1] /\ an.out[1] <= an.out[2]
        /\ Contains(t, k) => (an.out[1] > 0 <=> p > n)
        /\ an.out = analyze_text(t, k)

\* "T bullish sell": ticker present, three list words (bullish, bull, sell)
C18_Witness ==
  /\ an.op = "analyze_text"
  /\ an.done
  /\ an.ticker = <<"T">>
  /\ Cardinality(WordsIn(positive_words, lower(an.content))) = 2
  /\ Cardinality(WordsIn(negative_words, lower(an.content))) = 1
  /\ an.out = <<1, 3>>

\* C13: setSentiment returns false and leaves the store unchanged when no
\* mention has the external id; when one exists it returns true, that
\* mention's sentiment is the given score afterwards, and nothing else of
\* the store changes.
C13_SetSentiment ==
  [][ret'.op = "update_sentiment_score" =>
       LET hit == RowsWith(mentions, ret'.arg)
       IN  /\ ret'.val = (hit # {})
           /\ hit = {} => mentions' = mentions
           /\ Len(mentions') = Len(mentions)
           /\ \A i \in 1..Len(mentions) :
                mentions'[i] =
                  IF i \in hit THEN [mentions[i] EXCEPT !.sentiment_score = ret'.score]
                  ELSE mentions[i]]_vars

\* an update hit one of two stored mentions, after an earlier one had missed
C13_Witness ==
  /\ ret.op = "update_sentiment_score"
  /\ ret.val = TRUE
  /\ Len(mentions) = 2
  /\ \E i, j \in 1..2 :
       /\ mentions[i].sentiment_score = ret.score
       /\ mentions[j].sentiment_score = <<>>

\* an update for an external id no mention carries
C13_WitnessMiss ==
  /\ ret.op = "update_sentiment_score"
  /\ ret.val = FALSE
  /\ mentions # <<>>

\* a row with its sentiment score blanked
Unscored(row) == [row EXCEPT !.sentiment_score = <<>>]

\* C14: mentions are immutable: no row is ever deleted, no field of an
\* existing row other than the sentiment score changes, and a sentiment
\* score changes only from absent to a value, never from one value to another.
C14_MentionImmutability ==
  [][/\ Len(mentions') >= Len(mentions)
     /\ \A i \in 1..Len(mentions) :
          /\ Unscored(mentions'[i]) = Unscored(mentions[i])
          /\ mentions[i].sentiment_score # <<>> =>
               mentions'[i].sentiment_score = mentions[i].sentiment_score]_vars

\* the same frame for everything but the value of a score that is present
C14_OnlyScoresChange ==
  [][/\ Len(mentions') >= Len(mentions)
     /\ \A i \in 1..Len(mentions) :
          /\ Unscored(mentions'[i]) = Unscored(mentions[i])
          /\ mentions[i].sentiment_score # <<>> =>
               mentions'[i].sentiment_score # <<>>]_vars

\* the sum of f over the positions in S
RECURSIVE SumOver(_, _)
SumOver(S, f) ==
  IF S = {} THEN <<0, 1>>
  ELSE LET i == CHOOSE x \in S : TRUE
       IN  RatAdd(f[i], SumOver(S \ {i}, f))

\* this step was an aggregation call
Aggregated == an'.op = "analyze_mentions_for_stock" /\ an' # an

\* the rows of the stock an aggregation is about, in the store it starts from
FetchedRows == {i \in 1..Len(mentions) : mentions[i].stock_id = SelectStockId(stocks, an'.symbol)}

\* C19: an aggregation returns the number of fetched mentions as total, the
\* number of mentions that contributed a score as analyzed, and the sum of
\* the contributed scores over analyzed as average (exactly 0 when nothing
\* contributed, the empty list included); a mention that already carries a
\* score contributes that score as it is, is not scored again and no update
\* is issued for it.
C19_AggregateResult ==
  [][Aggregated =>
       LET R == FetchedRows
           scored == {i \in R : mentions[i].sentiment_score # <<>>}
           fresh == {i \in R \ scored :
                       RowsWith(mentions, derived_external_id(mentions[i])) # {}}
           value == [i \in R |->
                       IF i \in scored THEN mentions[i].sentiment_score
                       ELSE analyze_text(mentions[i].content, an'.symbol)]
           n == Cardinality(scored \cup fresh)
           res == an'.result
       IN  /\ res.total_mentions = Cardinality(R)
           /\ res.analyzed = n
           /\ res.average_sentiment =
                IF n = 0 THEN <<0, 1>>
                ELSE RatDivInt(SumOver(scored \cup fresh, value), n)
           /\ Len(an'.steps) = Len(an'.fetched)
           /\ \A k \in 1..Len(an'.steps) :
                an'.fetched[k] \in scored =>
                  /\ ~an'.steps[k].called
                  /\ an'.steps[k].sentiment = mentions[an'.fetched[k]].sentiment_score]_vars

\* an aggregation met a mention with a stored score of -1 whose text scores
\* +1, next to two mentions it scored itself
C19_Witness ==
  /\ an.op = "analyze_mentions_for_stock"
  /\ an.result = [average_sentiment |-> <<-1, 3>>, total_mentions |-> 3, analyzed |-> 3]
  /\ \E k \in 1..3 :
       /\ ~an.steps[k].called
       /\ an.steps[k].sentiment = <<-1, 1>>
       /\ analyze_text(mentions[an.fetched[k]].content, an.symbol) = <<1, 1>>

\* the steps of an aggregation whose update was rejected by the store
Rejected(steps) == {k \in 1..Len(steps) : steps[k].called /\ ~steps[k].updated}

\* C20: an unscored mention whose update the store rejects adds nothing to
\* the sum and nothing to analyzed, but is counted in total; when every
\* update is rejected the result is average 0 with analyzed 0.
C20_RejectedUpdateNotCounted ==
  [][Aggregated =>
       LET steps == an'.steps
           counted == (1..Len(steps)) \ Rejected(steps)
           res == an'.result
       IN  /\ \A k \in 1..Len(steps) :
                (steps[k].called /\ ~steps[k].updated) <=>
                  /\ mentions[an'.fetched[k]].sentiment_score = <<>>
                  /\ RowsWith(mentions, steps[k].target) = {}
           /\ res.total_mentions = Len(steps)
           /\ res.total_mentions = Cardinality(FetchedRows)
           /\ res.analyzed = Cardinality(counted)
           /\ res.average_sentiment =
                IF counted = {} THEN <<0, 1>>
                ELSE RatDivInt(SumOver(counted, [k \in 1..Len(steps) |-> steps[k].sentiment]),
                               Cardinality(counted))
           /\ Rejected(steps) = 1..Len(steps) =>
                res.average_sentiment = <<0, 1>> /\ res.analyzed = 0]_vars

\* of two fetched mentions one had its update rejected and the other one
\* alone makes the average
C20_Witness ==
  /\ an.op = "analyze_mentions_for_stock"
  /\ an.result = [average_sentiment |-> <<-1, 1>>, total_mentions |-> 2, analyzed |-> 1]
  /\ Cardinality(Rejected(an.steps)) = 1

\* every update of an aggregation over a non-empty list was rejected
C20_WitnessAllRejected ==
  /\ an.op = "analyze_mentions_for_stock"
  /\ an.result = [average_sentiment |-> <<0, 1>>, total_mentions |-> 1, analyzed |-> 0]
  /\ Rejected(an.steps) = {1}

\* the positions of the fetched list whose mention is unscored and carries
\* metadata that does not decode
Undecodable(ms, fetched) ==
  {k \in 1..Len(fetched) :
     /\ ms[fetched[k]].sentiment_score = <<>>
     /\ "raw" \in DOMAIN ms[fetched[k]].metadata}

\* C21: an aggregation that fetches an unscored mention whose metadata is
\* not valid JSON fails as a whole: the decoding error leaves the call, the
\* call stops at that mention instead of passing over it (no later mention
\* is processed) and it returns no aggregate result; an aggregation that
\* meets no such mention raises nothing and returns a result.
C21_MalformedMetadataFails ==
  [][an'.op = "analyze_mentions_for_stock" =>
       LET bad == Undecodable(mentions, an'.fetched)
       IN  IF bad # {}
           THEN /\ an'.exc = "JSONDecodeError"
                /\ an'.result = <<>>
                /\ Len(an'.steps) = (CHOOSE k \in bad : \A j \in bad : k <= j) - 1
           ELSE /\ an'.exc = "none"
                /\ an'.result # <<>>
                /\ Len(an'.steps) = Len(an'.fetched)]_vars

\* an aggregation scored one mention and then failed on the undecodable
\* second one
C21_Witness ==
  /\ an.op = "analyze_mentions_for_stock"
  /\ an.exc = "JSONDecodeError"
  /\ an.result = <<>>
  /\ Len(an.steps) = 1
  /\ an.steps[1].called
  /\ Len(an.fetched) = 2

\* C22: after any sequence of store operations (normal return or
\* constraint violation) the store holds no open connection.
C22_NoConnectionHeld == held = 0

\* whatever a store operation opened stays open until the collector runs:
\* each operation adds one connection and only a collector pass releases any
C22_HeldUntilCollected ==
  [][\/ (ret'.op \in {"add_stock", "get_stock_id", "add_mention", "get_stocks",
                      "get_mentions", "mention_exists"} /\ held' = held + 1)
     \/ (held' < held /\ ret' = ret)]_vars

\* a rejected insert has returned and its connection is still open
C22_Witness ==
  /\ ret.op = "add_mention"
  /\ ret.exc = "IntegrityError"
  /\ held > 0

\* C23: within a run the channels are walked one after another in the
\* configured order, starting with the first; a submission is walked only
\* while the channel's submissions are processed and a comment only
\* afterwards, while its comments are processed, and every walked item
\* belongs to the channel being processed; the submissions of channel k + 1
\* start only when the comments of channel k have been walked; the delay is
\* applied once each time a channel's comments have been walked and at no
\* other point, so that it has been applied chan - 1 times while channel
\* chan is walked and once per configured channel when the run returns.
C23_WalkOrdering ==
  [][LET subreddits == get_config_value(ds.config, "subreddits", <<>>)
         walking == pc' \in {"submissions", "comments"}
     IN  /\ (cur' # cur /\ cur'.kind = "submission") =>
              /\ pc = "submissions"
              /\ ItemChannel(cur'.id) = subreddits[chan]
         /\ (cur' # cur /\ cur'.kind = "comment") =>
              /\ pc = "comments"
              /\ ItemChannel(cur'.id) = subreddits[chan]
         /\ (~Walking /\ walking) => (pc' = "submissions" /\ chan' = 1 /\ slept' = 0)
         /\ (pc = "submissions" /\ pc' # pc) =>
              (pc' \in {"comments", "raised"} /\ chan' = chan /\ slept' = slept)
         /\ (pc = "submissions" /\ pc' = pc) => (chan' = chan /\ slept' = slept)
         /\ (pc = "comments" /\ pc' = pc) => (chan' = chan /\ slept' = slept)
         /\ (pc = "comments" /\ pc' = "submissions") =>
              (chan < Len(subreddits) /\ chan' = chan + 1 /\ slept' = slept + 1)
         /\ (pc = "comments" /\ pc' = "done") =>
              (chan = Len(subreddits) /\ chan' = chan /\ slept' = slept + 1)
         /\ (pc = "comments" /\ pc' = "raised") => (chan' = chan /\ slept' = slept)
         /\ (pc = "comments" /\ pc' # pc) => pc' \in {"submissions", "done", "raised"}
         /\ walking => (chan' \in 1..Len(subreddits) /\ slept' = chan' - 1)
         /\ (pc' = "done" /\ Walking) => slept' = Len(subreddits)]_vars

\* a run over two channels has returned after walking a comment of the
\* second channel, with the delay applied twice
C23_Witness ==
  /\ pc = "done"
  /\ chan = 2
  /\ slept = 2
  /\ cur.kind = "comment"
  /\ ItemChannel(cur.id) = "c2"

\* C24: the external id of an item is the string "reddit_", its content
\* type, "_" and its native id; every run gives the same item the same id,
\* and two items get the same id only if they agree in content type and
\* native id.
C24_ExternalIdFunction ==
  an.op = "create_external_id" =>
    \A r \in 1..Len(an.ids) :
      /\ an.ids[r].a = <<"r", "e", "d", "d", "i", "t", "_">> \o
                         (IF an.a.kind = "submission"
                          THEN <<"s", "u", "b", "m", "i", "s", "s", "i", "o", "n">>
                          ELSE <<"c", "o", "m", "m", "e", "n", "t">>) \o
                         <<"_">> \o an.a.id
      /\ an.ids[r].a = an.ids[1].a
      /\ an.ids[r].b = an.ids[1].b
      /\ (an.ids[r].a = an.ids[r].b) <=> (an.a = an.b)

\* a submission and a comment with the same native id have been identified
\* in two runs
C24_Witness ==
  /\ an.op = "create_external_id"
  /\ Len(an.ids) = 2
  /\ an.a.kind = "submission"
  /\ an.b.kind = "comment"
  /\ an.a.id = an.b.id
  /\ an.ids[2].a # an.ids[2].b

RequiredFields == {"subreddits", "tickers", "max_days"}

\* C25: a construction that fails on a missing required field (ValueError)
\* or a missing credential (RuntimeError) writes no stock row and no mention
\* row and leaves no data source behind, so that no channel is walked: a
\* run is only ever in progress on a constructed data source whose
\* configuration has every required field.
C25_ConfigErrorFatal ==
  [][/\ (ret'.op = "construct" /\ ret'.exc # "none") =>
          /\ ret'.exc \in {"ValueError", "RuntimeError"}
          /\ stocks' = stocks
          /\ mentions' = mentions
          /\ ~ds'.constructed
          /\ pc' = "idle"
          /\ chan' = 0
     /\ (ret'.op = "construct" /\ ret'.exc = "none") =>
          (ds'.constructed /\ RequiredFields \subseteq DOMAIN ds'.config)
     /\ pc' \in {"submissions", "comments"} =>
          (ds'.constructed /\ RequiredFields \subseteq DOMAIN ds'.config)]_vars

\* after a complete run on a valid configuration a construction failed on a
\* missing credential; the rows of the earlier run are all there is
C25_Witness ==
  /\ ret.op = "construct"
  /\ ret.exc = "RuntimeError"
  /\ ~ds.constructed
  /\ runs = 1
  /\ pc = "idle"
  /\ Len(stocks) = 1

\* a construction failed on a missing required field on an empty store
C25_WitnessMissingField ==
  /\ ret.op = "construct"
  /\ ret.exc = "ValueError"
  /\ stocks = <<>>
  /\ mentions = <<>>

\* C26: for every mention the walker stored, the id the aggregation rebuilds
\* from the row (metadata type and last '/'-segment of the url) is the
\* external id stored in the row.
C26_RebuiltIdRoundTrip ==
  \A k \in 1..Len(mentions) :
    derived_external_id(mentions[k]) = mentions[k].external_id

\* the id rebuilt from a stored comment whose permalink ends in '/' has an
\* empty native id
C26_Witness ==
  \E k \in 1..Len(mentions) :
    /\ mentions[k].external_id = create_external_id("comment", NativeId(4))
    /\ derived_external_id(mentions[k]) = <<"reddit", "_", "comment", "_", "">>

\* C27: an aggregation for symbol S changes nothing but the sentiment score
\* of rows owned by stock S, and every score it writes to a row is the score
\* of that row's own content for ticker S; rows of other stocks stay as
\* they were.
C27_AggregationFrame ==
  [][an'.op = "analyze_mentions_for_stock" =>
       /\ Len(mentions') = Len(mentions)
       /\ \A k \in 1..Len(mentions) :
            mentions'[k] # mentions[k] =>
              /\ mentions[k].stock_id = get_stock_id(stocks, an'.symbol)
              /\ mentions'[k] =
                   [mentions[k] EXCEPT !.sentiment_score =
                      analyze_text(mentions[k].content, an'.symbol)]]_vars

\* an aggregation wrote to a row a score that is not the score of the row's
\* content
C27_Witness ==
  /\ an.op = "analyze_mentions_for_stock"
  /\ \E k \in 1..Len(mentions) :
       /\ mentions[k].sentiment_score # <<>>
       /\ mentions[k].sentiment_score # analyze_text(mentions[k].content, an.symbol)

\* the stocks that own a mention row for the item in cur
OwningStocks(c) == {mentions[i].stock_id : i \in RowsWith(mentions, CurEid(c))}

\* C28: when a run has completed, the stocks that own a mention row for an
\* item the run handed to process are exactly the stocks of the currently
\* configured tickers matched in the item's text, whatever earlier runs did.
C28_TickerAssociationComplete ==
  (pc = "done" /\ cur.outcome = "processed") =>
    OwningStocks(cur) = {get_stock_id(stocks, t) : t \in MentionedTickers(cur)}

\* a second run, made after ticker "a" was added to the configuration, has
\* completed; the item mentions A and T and only stock T owns a row for it
C28_Witness ==
  /\ pc = "done"
  /\ runs = 2
  /\ ds.config = CfgBoth
  /\ cur.outcome = "processed"
  /\ cur.count = 0
  /\ MentionedTickers(cur) = {<<"A">>, <<"T">>}
  /\ OwningStocks(cur) = {get_stock_id(stocks, <<"T">>)}
  /\ stocks = << <<"T">>, <<"A">> >>

\* the counts of the running scrape(): the channels done, the submissions of
\* the current channel and the sequence being walked
RunTally ==
  [stored |-> total.stored + subTally.stored + tally.stored,
   skipped |-> total.skipped + subTally.skipped + tally.skipped]

\* C29: the counts of a run start at zero; every step of the run adds to
\* 'stored' the number of rows the step added to the store, and adds one to
\* 'skipped' exactly when the step walked an item inside the time window
\* with non-empty text and added no row; an item older than max_days,
\* younger than min_days or with empty text adds no row and changes neither
\* count; the result of scrape is these counts.
C29_TallyAccounting ==
  [][/\ (~Walking /\ pc' \in {"submissions", "comments"}) => RunTally' = Zero
     /\ Walking =>
          LET added == Len(mentions') - Len(mentions)
              inWindow == /\ cur'.age >= MinDays
                          /\ cur'.age <= MaxDays
                          /\ CurContent(cur') # <<>>
          IN  /\ RunTally'.stored = RunTally.stored + added
              /\ RunTally'.skipped =
                   RunTally.skipped +
                     (IF Visited /\ inWindow /\ added = 0 THEN 1 ELSE 0)
              /\ (Visited /\ ~inWindow) => (added = 0 /\ RunTally' = RunTally)
              /\ Visited => (inWindow <=> cur'.outcome = "processed")
              /\ pc' = "done" => (ret'.op = "scrape" /\ ret'.val = RunTally')]_vars

\* a run has returned one stored row and one skipped item after it also
\* walked an item outside the window or without text
C29_Witness ==
  /\ pc = "done"
  /\ ret.op = "scrape"
  /\ ret.val = [stored |-> 1, skipped |-> 1]
  /\ cur.outcome \in {"skip_range", "skip_empty"}

\* C30: analyze_all_stocks gives a stock BUY or SELL only if at least
\* min_mentions of its mentions contributed to the average (analyzed >= 5).
C30_GateOnAnalyzed ==
  an.op = "analyze_all_stocks" =>
    \A k \in 1..Len(an.results) :
      an.results[k].recommendation \in {"BUY", "SELL"} =>
        an.results[k].analyzed >= min_mentions

\* the gate is applied to the number of mentions fetched for the stock
C30_GateOnTotal ==
  an.op = "analyze_all_stocks" =>
    \A k \in 1..Len(an.results) :
      an.results[k].recommendation \in {"BUY", "SELL"} =>
        an.results[k].total_mentions >= min_mentions

\* a stock with five mentions none of which contributed is given SELL
C30_Witness ==
  /\ an.op = "analyze_all_stocks"
  /\ \E k \in 1..Len(an.results) :
       /\ an.results[k].recommendation = "SELL"
       /\ an.results[k].total_mentions = 5
       /\ an.results[k].analyzed = 0
       /\ an.results[k].average_sentiment = <<0, 1>>

\* migration and the direct writes keep the ids and the external ids of the
\* mentions table unique
MigrateKeepsKeysUnique ==
  mentions # NoTable =>
    \A i, j \in 1..Len(mentions) :
      i # j => /\ mentions[i].id # mentions[j].id
               /\ ~SameCell(mentions[i].external_id, mentions[j].external_id)

\* two rows whose external_id is NULL stand side by side in one table
TwoNullExternalIds ==
  /\ mentions # NoTable
  /\ Len(mentions) = 2
  /\ \A i \in 1..2 : mentions[i].external_id = Cell("null", <<>>)

\* a row with a NULL external_id was copied next to another such row
MigrateCopiesNullRow ==
  /\ ret.op = "migrate_database"
  /\ mentions # NoTable /\ data_points # NoTable
  /\ \E i, j \in 1..Len(mentions) :
       /\ i # j
       /\ mentions[i].external_id = Cell("null", <<>>)
       /\ mentions[j].external_id = Cell("null", <<>>)
       /\ \E k \in 1..Len(data_points) : data_points[k] = mentions[j]

\* under AUTOINCREMENT an id offered by the copy and left out for its
\* external_id is not handed out again: the next insert skips it
RowidSkipsIgnoredCopy ==
  /\ sqlite_sequence.autoincrement
  /\ ret.op \in {"add_mention", "store_mention"}
  /\ ret.exc = "none"
  /\ ret.val = 3
  /\ mentions # NoTable
  /\ Len(mentions) = 2
  /\ mentions[1].id = 1

\* without AUTOINCREMENT the same insert takes the id after the largest
RowidAfterLargest ==
  /\ ~sqlite_sequence.autoincrement
  /\ ret.op \in {"add_mention", "store_mention"}
  /\ ret.exc = "none"
  /\ ret.val = 2
  /\ data_points # NoTable
  /\ Len(data_points) = 2

\* the sequence of a table is never behind its largest id
SequenceCoversIds ==
  sqlite_sequence.autoincrement =>
    /\ mentions # NoTable =>
         \A i \in 1..Len(mentions) : mentions[i].id <= sqlite_sequence.mentions
    /\ data_points # NoTable =>
         \A i \in 1..Len(data_points) : data_points[i].id <= sqlite_sequence.data_points

\* add_data_point on an object built before the rename finds no table
AddDataPointAfterRename ==
  /\ ret.op = "add_data_point"
  /\ ret.exc = "OperationalError"
  /\ data_points = NoTable
  /\ mentions # NoTable

\* a row written by store_mention is not found under the source and the
\* external id it was stored for
StoreMentionRowMisfiled ==
  /\ ret.op = "store_mention"
  /\ ret.exc = "none"
  /\ ~\E i \in 1..Len(mentions) :
        /\ SameCell(mentions[i].source, Cell("source", get_source_name))
        /\ SameCell(mentions[i].external_id, ret.arg)

\* a second store_mention for the same item ends in IntegrityError
StoreMentionTwiceRaises ==
  /\ ret.op = "store_mention"
  /\ ret.exc = "IntegrityError"

\* a row of data_points was left out of the copy because its id was taken
MigrateCopyDropsRow ==
  /\ ret.op = "migrate_database"
  /\ data_points # NoTable
  /\ \E i \in 1..Len(data_points) :
       /\ data_points[i].external_id # Cell("null", <<>>)
       /\ ~CellTaken(mentions, data_points[i].external_id)

====
